---- MODULE Spec2Model ----
(***************************************************************************)
(* A model of the libp2p node core.                                        *)
(*                                                                         *)
(*  - the dial queue (connection-manager/dial-queue.ts, kept in            *)
(*    src/unnamed/part_000): dial(), calculateMultiaddrs(), performDial(), *)
(*    the per-peer and the global PQueue, the abort signals;               *)
(*  - the connection manager's inventory and pruning.                      *)
(*                                                                         *)
(* One action is one event-loop turn: the handler that runs plus every     *)
(* promise continuation it makes runnable (the queues start the next job   *)
(* as soon as a slot is free, a settled dial runs its finally/catch        *)
(* handlers).  The turns that come from outside are the dial() calls, the  *)
(* completion of the awaits of calculateMultiaddrs, the settling of a      *)
(* transport dial, the firing of a timer or of a caller's abort signal.    *)
(***************************************************************************)
EXTENDS Integers, Sequences, FiniteSets, TLC

\* ------------------------------------------------------------------------
\* Bounds and configuration of the modelled node
\* ------------------------------------------------------------------------
MaxInv == 2                      \* number of dial() invocations explored
MaxParallelDials == 2            \* init.maxParallelDials
MaxConcurrentDialsPerPeer == 2   \* init.maxConcurrentDialsPerPeer
MaxPeerAddrsToDial == 3          \* init.maxPeerAddrsToDial
MaxAborts == 1                   \* number of timeouts and caller aborts explored
MaxConnections == 2              \* init.maxConnections
MaxOpens == 3                    \* number of connections opened
MaxTags == 2                     \* number of tagPeer calls explored
MaxIdOps == 2                    \* number of identify() calls and pushes explored
DebounceTicks == 2               \* the debounce wait of one second, in ticks
MaxBursts == 2                   \* bursts of address changes
MaxObservedAddresses == 2        \* identify's maxObservedAddresses
MaxCandidates == 3               \* protocols the dialer proposes
MaxStarts == 2                   \* starts of the node
MaxPushOps == 2                  \* push() calls
MaxIdConns == 2                  \* number of connections to the remote peer
MaxSeq == 2                      \* highest sequence number of a signed peer record

Invs == 1..MaxInv

NoPeer == "none"                 \* peerId == null
Self == "self"                   \* components.peerId

\* a multiaddr: its transport part and its trailing /p2p/<peer id>, if any
Ma(n, p) == [ma |-> n, p2p |-> p]

\* peerStore.addressBook.get(peerId)
AddressBook(p) ==
  CASE p = "p1" -> <<[multiaddr |-> Ma(1, NoPeer), isCertified |-> TRUE],
                     [multiaddr |-> Ma(2, NoPeer), isCertified |-> FALSE],
                     [multiaddr |-> Ma(3, NoPeer), isCertified |-> FALSE],
                     [multiaddr |-> Ma(1, NoPeer), isCertified |-> FALSE]>>
    [] p = "p2" -> <<[multiaddr |-> Ma(4, NoPeer), isCertified |-> FALSE],
                     [multiaddr |-> Ma(8, NoPeer), isCertified |-> FALSE]>>
    [] OTHER    -> <<>>

DnsAddrs == {4}                  \* multiaddrs with a dnsaddr component
NoTransport == {8}               \* transportForMultiaddr finds no transport
PrivateAddrs == {1}              \* publicAddressesFirst sorts these last
PathAddrs == {3}                 \* the last protocol of the multiaddr is a path
DeniedPeers == {"p3"}            \* connectionGater.denyDialPeer
DeniedAddrs == {9}               \* connectionGater.denyDialMultiaddr

\* the arguments dial() is called with, after getPeerAddress
Targets ==
  { [peer |-> "p1",   addrs |-> <<>>],
    [peer |-> "p1",   addrs |-> <<Ma(2, "p1")>>],
    [peer |-> "p2",   addrs |-> <<>>],
    [peer |-> "p3",   addrs |-> <<>>],
    [peer |-> Self,   addrs |-> <<>>],
    [peer |-> NoPeer, addrs |-> <<Ma(7, NoPeer)>>],
    [peer |-> NoPeer, addrs |-> <<Ma(9, NoPeer)>>],
    [peer |-> NoPeer, addrs |-> <<Ma(7, NoPeer), Ma(10, NoPeer), Ma(11, NoPeer), Ma(12, NoPeer)>>] }

CMPeers == {"p1", "p2", "p3"}    \* the peers that connect
TagValues == {10, 80}            \* the values peers are tagged with

NoTarget == [peer |-> NoPeer, addrs |-> <<>>]
NoResult == [kind |-> "none", code |-> "none", dial |-> 0, addr |-> 0, inv |-> 0]
ConnResult(d, a) == [kind |-> "conn", code |-> "none", dial |-> d, addr |-> a, inv |-> 0]
DialError(c, d) == [kind |-> "err", code |-> c, dial |-> d, addr |-> 0, inv |-> 0]
CalcError(c, i) == [kind |-> "err", code |-> c, dial |-> 0, addr |-> 0, inv |-> i]

\* ------------------------------------------------------------------------
\* State
\* ------------------------------------------------------------------------
VARIABLES
  inv,           \* the dial() invocations: position, signals, outcome
  pendingDials,  \* DialQueue.pendingDials, as the ids of the Pending Dials
  dialInfo,      \* the PendingDial objects ever created, by id
  jobs,          \* per Pending Dial, per address: queue position, controller
  gqueue,        \* the jobs waiting in DialQueue.queue, in order
  shutDown       \* shutDownController.signal.aborted

dialVars == <<inv, pendingDials, dialInfo, jobs, gqueue, shutDown>>

VARIABLES
  connections,   \* the connection manager's inventory, in opening order
  opening,       \* connections whose connection:open is being handled
  tagValue,      \* per peer: sum of the values of its tags
  keepAlive,     \* per peer: tagged KEEP_ALIVE
  lastPrune,     \* what the latest pruning run since the last open closed
  clock          \* source of open-timestamps

cmVars == <<connections, opening, tagValue, keepAlive, lastPrune, clock>>

VARIABLES
  psPeer,        \* the Peer Store's entry for the remote peer
  acceptedSeq,   \* the highest sequence number of a signed record stored so far
  storedKeys,    \* the metadata keys stored for the remote peer so far
  idOps,         \* the identify() calls and push handlers: position, message
  idConns,       \* the connections to the remote peer the upgrader returned
  eventLog       \* the connection:open and peer:identify events, in order

idVars == <<psPeer, acceptedSeq, storedKeys, idOps, idConns, eventLog>>

VARIABLES
  observed,      \* AddressManager.observed: per address, absent or its confidence
  amCalls,       \* per address: the calls made for it so far
  updatePending, \* a debounced _updatePeerStoreAddresses is due
  selfMultiaddrs, \* peerStore: the multiaddrs stored for our own peer id
  capHit,        \* identify has left out an observed address: too many are held
  transportUp,   \* a transport is listening
  timerLeft,     \* ticks until the debounce timer fires, while an update is due
  sinceTrigger,  \* ticks since the last address change, up to DebounceTicks
  bursts,        \* the bursts of address changes begun so far
  patches,       \* the patches of our own peer store entry made so far
  reconfirmed    \* the forms in which a confident address was confirmed again

amDebounce == <<updatePending, timerLeft, sinceTrigger, bursts, patches>>
amVars == <<observed, amCalls, selfMultiaddrs, capHit, transportUp, amDebounce, reconfirmed>>

VARIABLES
  adPass,        \* per autoDial() invocation: where it is and the peers it holds
  adQueue,       \* AutoDial.queue: the jobs not started yet
  adRunning,     \* AutoDial.queue: per peer, the jobs awaiting openConnection
  adConns,       \* connectionManager.getConnections(): the connected peers
  adDialing,     \* the peers the connection manager has a pending dial for
  adOpened,      \* the openConnection calls made, with what held at the call
  adCleared,     \* the re-checks that found enough connections
  adStopped      \* history: AutoDial.stop() has been called

adVars == <<adPass, adQueue, adRunning, adConns, adDialing, adOpened, adCleared, adStopped>>

VARIABLES
  started,       \* Libp2pNode.started
  selfKey,       \* the keychain holds a key named 'self'
  serviceState,  \* what the startable services have been told last
  running,       \* the services' start() has been run and their stop() not since
  nodeHist,      \* history: a stop() call has run through and no start() was
                 \* called since; the last start() call to settle rejected
  nodeOps        \* per start() or stop() call in flight: where it is

nodeVars == <<started, selfKey, serviceState, running, nodeHist, nodeOps>>

VARIABLES
  status,        \* MockConnection.status
  streams,       \* MockConnection.streams: per stream, absent or its state
  maConn,        \* the state of the underlying multiaddr connection
  connOps,       \* per close() or newStream() call in flight: where it is
  seenStatus,    \* the values status has had so far
  gained         \* history: the values status had when a stream was added

connVars == <<status, streams, maConn, connOps, seenStatus, gained>>

VARIABLES
  idStarted,     \* IdentifyService.started
  handlers,      \* registrar: the protocols of the application with a handler
  pushOps,       \* per push() call: where it is, what it sends, its streams
  pushWire,      \* the push messages written and not yet handled by the peer
  remoteProtocols, \* the peer's Peer Store: the protocols stored for us
  remoteSaw      \* the pushes the peer handled, with the protocols it then stored

pushVars == <<idStarted, handlers, pushOps, pushWire, remoteProtocols, remoteSaw>>

VARIABLES
  cmStarted,     \* the node, and with it the connection manager, is started
  cmStarts,      \* the starts so far
  reconnect      \* per start: where its reconnect pass is, the peers to open
                 \* a connection to, the peers openConnection was called for

kaVars == <<cmStarted, cmStarts, reconnect>>

VARIABLES
  dialer,        \* select: the candidates, the one proposed, the outcome
  listener,      \* handle: the protocols supported, the outcome
  toListener,    \* the lines written by the dialer and not yet read
  toDialer       \* the lines written by the listener and not yet read

msVars == <<dialer, listener, toListener, toDialer>>

vars == <<dialVars, cmVars, idVars, amVars, adVars, nodeVars, connVars, pushVars, kaVars, msVars>>

notDial == <<cmVars, idVars, amVars, adVars, nodeVars, connVars, pushVars, kaVars, msVars>>
notCM == <<dialVars, idVars, amVars, adVars, nodeVars, connVars, pushVars, kaVars, msVars>>
notId == <<dialVars, cmVars, amVars, adVars, nodeVars, connVars, pushVars, kaVars, msVars>>
notAM == <<dialVars, cmVars, idVars, adVars, nodeVars, connVars, pushVars, kaVars, msVars>>
notAD == <<dialVars, cmVars, idVars, amVars, nodeVars, connVars, pushVars, kaVars, msVars>>
notPush == <<dialVars, cmVars, idVars, amVars, adVars, nodeVars, connVars, kaVars, msVars>>
notKA == <<dialVars, idVars, amVars, adVars, nodeVars, connVars, pushVars, msVars>>
notMS == <<dialVars, cmVars, idVars, amVars, adVars, nodeVars, connVars, pushVars, kaVars>>
notNode == <<dialVars, cmVars, idVars, amVars, adVars, connVars, pushVars, kaVars, msVars>>
notConn == <<dialVars, cmVars, idVars, amVars, adVars, nodeVars, pushVars, kaVars, msVars>>

\* ------------------------------------------------------------------------
\* calculateMultiaddrs
\* ------------------------------------------------------------------------

\* what the dnsaddr resolver returns for a resolvable multiaddr
DnsRecord(n) == IF n = 4 THEN <<Ma(5, NoPeer)>> ELSE <<>>

\* resolveMultiaddrs: a multiaddr without dnsaddr is returned as it is; the
\* resolution of a dnsaddr runs under the dial's signal and resolveRecord
\* turns every failure of it (the abort included) into an empty list
ResolveMultiaddrs(m, aborted, dnsOk) ==
  IF m.ma \notin DnsAddrs THEN <<m>>
  ELSE IF aborted \/ ~dnsOk THEN <<>>
  ELSE DnsRecord(m.ma)

ResolveAddr(addr, aborted, dnsOk) ==
  LET result == ResolveMultiaddrs(addr.multiaddr, aborted, dnsOk) IN
  IF Len(result) = 1 /\ result[1] = addr.multiaddr
    THEN <<addr>>
    ELSE [k \in 1..Len(result) |-> [multiaddr |-> result[k], isCertified |-> FALSE]]

RECURSIVE ResolveAll(_, _, _)
ResolveAll(s, aborted, dnsOk) ==
  IF s = <<>> THEN <<>>
  ELSE ResolveAddr(Head(s), aborted, dnsOk) \o ResolveAll(Tail(s), aborted, dnsOk)

RECURSIVE Dedupe(_, _)
Dedupe(s, acc) ==
  IF s = <<>> THEN acc
  ELSE LET a == Head(s)
           hit == {k \in 1..Len(acc) : acc[k].multiaddr = a.multiaddr}
       IN IF hit # {}
            THEN Dedupe(Tail(s), [acc EXCEPT ![CHOOSE k \in hit : TRUE].isCertified = @ \/ a.isCertified])
            ELSE Dedupe(Tail(s), Append(acc, a))

AppendPeerId(addr, peer) ==
  IF addr.multiaddr.ma \in PathAddrs THEN addr
  ELSE IF addr.multiaddr.p2p = NoPeer
    THEN [multiaddr |-> Ma(addr.multiaddr.ma, peer), isCertified |-> addr.isCertified]
    ELSE addr

IsPublic(addr) == addr.multiaddr.ma \notin PrivateAddrs
IsPrivate(addr) == ~IsPublic(addr)

\* the default addressSorter
publicAddressesFirst(s) == SelectSeq(s, IsPublic) \o SelectSeq(s, IsPrivate)

NotDenied(addr) == addr.multiaddr.ma \notin DeniedAddrs
HasTransport(addr) == addr.multiaddr.ma \notin NoTransport

\* a check that lets the node dial itself
DialedSelfNever(peer) == FALSE

\* calculateMultiaddrs: this.peerId.equals(peerId), for a target with a peer id
DialedSelf(peer) == peer # NoPeer /\ peer = Self

calculateMultiaddrs(peer, addrs, aborted, dnsOk) ==
  IF DialedSelf(peer)
    THEN [code |-> "ERR_DIALED_SELF", addrs |-> <<>>]
  ELSE IF peer # NoPeer /\ peer \in DeniedPeers
    THEN [code |-> "ERR_PEER_DIAL_INTERCEPTED", addrs |-> <<>>]
  ELSE
    LET loaded   == IF peer # NoPeer /\ addrs = <<>> THEN AddressBook(peer) ELSE addrs
        resolved == ResolveAll(loaded, aborted, dnsOk)
        filtered == SelectSeq(resolved, HasTransport)
        deduped  == Dedupe(filtered, <<>>)
        withPeer == IF peer # NoPeer
                      THEN [k \in 1..Len(deduped) |-> AppendPeerId(deduped[k], peer)]
                      ELSE deduped
        gated    == SelectSeq(withPeer, NotDenied)
    IN IF Len(deduped) = 0
         THEN [code |-> "ERR_NO_VALID_ADDRESSES", addrs |-> <<>>]
       ELSE IF Len(deduped) > MaxPeerAddrsToDial
         THEN [code |-> "ERR_TOO_MANY_ADDRESSES", addrs |-> <<>>]
       ELSE [code |-> "ok", addrs |-> publicAddressesFirst(gated)]

\* what calculateMultiaddrs yields for each target dial() is called with, by
\* the state of the dial's signal and of the dnsaddr resolver (the multiaddrs
\* passed to dial() enter as uncertified addresses)
CalculatedMultiaddrs ==
  [t \in Targets, aborted \in BOOLEAN, dnsOk \in BOOLEAN |->
     calculateMultiaddrs(t.peer,
                         [k \in 1..Len(t.addrs) |-> [multiaddr |-> t.addrs[k], isCertified |-> FALSE]],
                         aborted, dnsOk)]

\* ------------------------------------------------------------------------
\* Signals
\* ------------------------------------------------------------------------

\* a dial signal that leaves the shutdown controller out
CombinedSignalNoShutdown(iv, sd, i) == iv[i].timedOut \/ iv[i].userAborted

\* createDialAbortControllers: the dial's signal is aborted as soon as its
\* timeout, the shutdown controller or the caller's signal is
CombinedSignal(iv, sd, i) == iv[i].timedOut \/ sd \/ iv[i].userAborted

\* performDial: let any signal abort the dial of one address
JobAborted(iv, sd, jb, d, a) == jb[d][a].ctl = "aborted" \/ CombinedSignal(iv, sd, d)

\* ------------------------------------------------------------------------
\* The two queues
\* ------------------------------------------------------------------------
JobKeys(jb) == {k \in Invs \X (1..MaxPeerAddrsToDial) : k[2] \in DOMAIN jb[k[1]]}

\* a per-peer queue that lets one job too many start
PeerHasSlotOffByOne(jb, d) ==
  Cardinality({a \in DOMAIN jb[d] : jb[d][a].st \in {"gq", "dialing"}}) <= MaxConcurrentDialsPerPeer

\* the jobs that hold a slot of the per-peer queue of Pending Dial d
PeerRunning(jb, d) == {a \in DOMAIN jb[d] : jb[d][a].st \in {"gq", "dialing"}}

PeerHasSlot(jb, d) == Cardinality(PeerRunning(jb, d)) < MaxConcurrentDialsPerPeer

\* the jobs that hold a slot of the global queue: transport dials in progress
GlobalRunning(jb) == {k \in JobKeys(jb) : jb[k[1]][k[2]].st = "dialing"}

\* a global queue that lets one job too many start
GlobalHasSlotOffByOne(jb) == Cardinality(GlobalRunning(jb)) <= MaxParallelDials

GlobalHasSlot(jb) == Cardinality(GlobalRunning(jb)) < MaxParallelDials

PeerStartable(jb) == {d \in Invs : PeerHasSlot(jb, d) /\ \E a \in DOMAIN jb[d] : jb[d][a].st = "pq"}

Min(S) == CHOOSE x \in S : \A y \in S : x <= y

\* One job reaches the head of a queue.  A job that gets there with an aborted
\* signal throws; any other job that reaches the head of the per-peer queue is
\* added to the global queue, and a job that reaches the head of the global
\* queue marks its Pending Dial active and starts the transport dial.
\* (q holds the jobs, the global queue and the Pending Dials; it is returned
\* unchanged when no job can start)
QueueStep(iv, sd, q) ==
  IF q.gqueue # <<>> /\ GlobalHasSlot(q.jobs) THEN
    LET d == Head(q.gqueue)[1]
        a == Head(q.gqueue)[2]
    IN IF JobAborted(iv, sd, q.jobs, d, a)
         THEN [q EXCEPT !.jobs[d][a].st = "failed", !.jobs[d][a].err = "ABORT_ERR",
                        !.gqueue = Tail(@)]
         ELSE [q EXCEPT !.jobs[d][a].st = "dialing", !.gqueue = Tail(@),
                        !.info[d].status = "active"]
  ELSE IF PeerStartable(q.jobs) # {} THEN
    LET d == Min(PeerStartable(q.jobs))
        a == Min({b \in DOMAIN q.jobs[d] : q.jobs[d][b].st = "pq"})
    IN IF JobAborted(iv, sd, q.jobs, d, a)
         THEN [q EXCEPT !.jobs[d][a].st = "failed", !.jobs[d][a].err = "ABORT_ERR"]
       ELSE IF GlobalHasSlot(q.jobs)
         THEN [q EXCEPT !.jobs[d][a].st = "dialing", !.info[d].status = "active"]
       ELSE [q EXCEPT !.jobs[d][a].st = "gq", !.gqueue = Append(@, <<d, a>>)]
  ELSE q

\* the queues run until nothing more can start
RECURSIVE RunQueuesFrom(_, _, _)
RunQueuesFrom(iv, sd, q) ==
  CHOOSE r \in {IF n = q THEN q ELSE RunQueuesFrom(iv, sd, n) : n \in {QueueStep(iv, sd, q)}} : TRUE

RunQueues(iv, sd, jb, gq, di) ==
  CHOOSE r \in {RunQueuesFrom(iv, sd, q) : q \in {[jobs |-> jb, gqueue |-> gq, info |-> di]}} : TRUE

\* ------------------------------------------------------------------------
\* performDial: the race of the addresses of one Pending Dial
\* ------------------------------------------------------------------------

\* a success that leaves the winner's controller among dialAbortControllers
OnDialSuccessKeepsController(jb, d, a) ==
  [jb EXCEPT ![d] = [b \in DOMAIN jb[d] |->
     IF b = a THEN [st |-> "ok", ctl |-> "live", err |-> "none"]
     ELSE [jb[d][b] EXCEPT !.ctl = IF @ = "live" THEN "aborted" ELSE @]]]

\* a transport dial returned a connection: its controller is taken out of
\* dialAbortControllers and every controller left in it is aborted
OnDialSuccess(jb, d, a) ==
  [jb EXCEPT ![d] = [b \in DOMAIN jb[d] |->
     IF b = a THEN [st |-> "ok", ctl |-> "undefined", err |-> "none"]
     ELSE [jb[d][b] EXCEPT !.ctl = IF @ = "live" THEN "aborted" ELSE @]]]

\* the finally block of performDial: abort any leftover dials
AbortLeftover(js) == [b \in DOMAIN js |-> [js[b] EXCEPT !.ctl = IF @ = "live" THEN "aborted" ELSE @]]

HasWinner(jb, d) == \E a \in DOMAIN jb[d] : jb[d][a].st = "ok"
AllFailed(jb, d) == \A a \in DOMAIN jb[d] : jb[d][a].st = "failed"

\* Promise.any has settled
Settled(jb, d) == HasWinner(jb, d) \/ AllFailed(jb, d)

\* a performDial that never unwraps the AggregateError
DialFailureAggregate(iv, jb, d) ==
  IF iv[d].timedOut THEN "ERR_TIMEOUT" ELSE "AggregateError"

\* the error performDial throws when every address failed, as dial() rethrows
\* it: ERR_TIMEOUT when the dial's timeout fired, else the only error when one
\* address was dialled, else the AggregateError
DialFailure(iv, jb, d) ==
  IF iv[d].timedOut THEN "ERR_TIMEOUT"
  ELSE IF Len(jb[d]) = 1 THEN jb[d][1].err
  ELSE "AggregateError"

DialOutcome(iv, jb, d) ==
  IF HasWinner(jb, d)
    THEN ConnResult(d, CHOOSE a \in DOMAIN jb[d] : jb[d][a].st = "ok")
    ELSE DialError(DialFailure(iv, jb, d), d)

\* a settlement that leaves the entry in pendingDials
SettleKeepsPending(iv, jb, di, pd) ==
  LET S == {d \in Invs : (\E k \in 1..Len(pd) : pd[k] = d) /\ Settled(jb, d)}
  IN [inv |-> [i \in Invs |->
                 IF iv[i].dial \in S /\ iv[i].st \in {"awaiting", "joined"}
                   THEN [iv[i] EXCEPT
                           !.st = IF HasWinner(jb, iv[i].dial) THEN "resolved" ELSE "rejected",
                           !.result = DialOutcome(iv, jb, iv[i].dial),
                           !.timerCleared = IF iv[i].dial = i THEN TRUE ELSE @]
                   ELSE iv[i]],
      jobs |-> [d \in Invs |-> IF d \in S THEN AbortLeftover(jb[d]) ELSE jb[d]],
      info |-> di,
      pending |-> pd]

\* The promise of every Pending Dial whose race is over settles: performDial
\* aborts the leftover controllers, the entry leaves pendingDials, the timeout
\* of the creating invocation is cleared, and the creating invocation and the
\* invocations that joined it receive the outcome.
Settle(iv, jb, di, pd) ==
  LET S == {d \in Invs : (\E k \in 1..Len(pd) : pd[k] = d) /\ Settled(jb, d)}
      Keep(d) == d \notin S
  IN [inv |-> [i \in Invs |->
                 IF iv[i].dial \in S /\ iv[i].st \in {"awaiting", "joined"}
                   THEN [iv[i] EXCEPT
                           !.st = IF HasWinner(jb, iv[i].dial) THEN "resolved" ELSE "rejected",
                           !.result = DialOutcome(iv, jb, iv[i].dial),
                           !.timerCleared = IF iv[i].dial = i THEN TRUE ELSE @]
                   ELSE iv[i]],
      jobs |-> [d \in Invs |-> IF d \in S THEN AbortLeftover(jb[d]) ELSE jb[d]],
      info |-> [d \in Invs |->
                 IF d \in S
                   THEN [di[d] EXCEPT !.status = IF HasWinner(jb, d) THEN "success" ELSE "error"]
                   ELSE di[d]],
      pending |-> SelectSeq(pd, Keep)]

\* a lookup that compares the multiaddrs only
SameTargetByMultiaddrs(di, d, peer, mas) == mas = di[d].multiaddrs

\* dial(): the Pending Dial an invocation for (peer, multiaddrs) joins, 0 if none
SameTarget(di, d, peer, mas) ==
  \/ di[d].peer # NoPeer /\ peer # NoPeer /\ di[d].peer = peer
  \/ mas = di[d].multiaddrs

ExistingDial(pd, di, peer, mas) ==
  LET hits == {k \in 1..Len(pd) : SameTarget(di, pd[k], peer, mas)}
  IN IF hits = {} THEN 0 ELSE pd[Min(hits)]

\* ------------------------------------------------------------------------
\* Dial queue: initial state and actions
\* ------------------------------------------------------------------------
IdleInv == [st |-> "idle", target |-> NoTarget, userAborted |-> FALSE, timedOut |-> FALSE,
            timerCleared |-> FALSE, dial |-> 0, result |-> NoResult, overlaps |-> {},
            afterShutdown |-> FALSE]
NoDial == [created |-> FALSE, peer |-> NoPeer, multiaddrs |-> <<>>, status |-> "queued"]

InitDialVars ==
  /\ inv = [i \in Invs |-> IdleInv]
  /\ pendingDials = <<>>
  /\ dialInfo = [d \in Invs |-> NoDial]
  /\ jobs = [d \in Invs |-> <<>>]
  /\ gqueue = <<>>
  /\ shutDown = FALSE

\* the invocation has been called and has neither resolved nor rejected
Unsettled(i) == inv[i].st \in {"calc", "awaiting", "joined"}

\* dial(target, {signal}) is called: the abort conditions are created and
\* calculateMultiaddrs is entered.  It throws before its first await when the
\* target is the node itself; otherwise the invocation is suspended in it.
\* (overlaps records the invocations for the same peer id that have not
\* settled at this moment, afterShutdown whether cancelPendingDials() had
\* been called before)
DialStart(i, t) ==
  /\ inv[i].st = "idle"
  /\ \A j \in Invs : j < i => inv[j].st # "idle"
  /\ LET over == {j \in Invs : Unsettled(j) /\ t.peer # NoPeer /\ inv[j].target.peer = t.peer}
     IN IF DialedSelf(t.peer)
          THEN inv' = [inv EXCEPT ![i].st = "rejected", ![i].target = t, ![i].overlaps = over,
                                  ![i].result = CalcError("ERR_DIALED_SELF", i),
                                  ![i].timerCleared = TRUE, ![i].afterShutdown = shutDown]
          ELSE inv' = [inv EXCEPT ![i].st = "calc", ![i].target = t, ![i].overlaps = over,
                                  ![i].afterShutdown = shutDown]
  /\ UNCHANGED <<pendingDials, dialInfo, jobs, gqueue, shutDown>>
  /\ UNCHANGED notDial

\* calculateMultiaddrs returns or throws, and dial() runs on to its next
\* await: it rethrows, joins the existing Pending Dial, or creates one
CalcFinish(i, dnsOk) ==
  /\ inv[i].st = "calc"
  /\ \E res \in {CalculatedMultiaddrs[inv[i].target, CombinedSignal(inv, shutDown, i), dnsOk]} :
     \E mas \in {[k \in 1..Len(res.addrs) |-> res.addrs[k].multiaddr]} :
     \E ex \in {ExistingDial(pendingDials, dialInfo, inv[i].target.peer, mas)} :
       IF res.code # "ok" THEN
         /\ inv' = [inv EXCEPT ![i].st = "rejected", ![i].result = CalcError(res.code, i),
                               ![i].timerCleared = TRUE]
         /\ UNCHANGED <<pendingDials, dialInfo, jobs, gqueue>>
       ELSE IF ex # 0 THEN
         /\ inv' = [inv EXCEPT ![i].st = "joined", ![i].dial = ex, ![i].timerCleared = TRUE]
         /\ UNCHANGED <<pendingDials, dialInfo, jobs, gqueue>>
       ELSE
         \E q \in {RunQueues([inv EXCEPT ![i].st = "awaiting", ![i].dial = i], shutDown,
                             [jobs EXCEPT ![i] = [a \in 1..Len(mas) |->
                                                    [st |-> "pq", ctl |-> "live", err |-> "none"]]],
                             gqueue,
                             [dialInfo EXCEPT ![i] = [created |-> TRUE, peer |-> inv[i].target.peer,
                                                      multiaddrs |-> mas, status |-> "queued"]])} :
         \E s \in {Settle([inv EXCEPT ![i].st = "awaiting", ![i].dial = i],
                          q.jobs, q.info, Append(pendingDials, i))} :
           /\ inv' = s.inv
           /\ jobs' = s.jobs
           /\ dialInfo' = s.info
           /\ pendingDials' = s.pending
           /\ gqueue' = q.gqueue
  /\ UNCHANGED shutDown
  /\ UNCHANGED notDial

\* transportManager.dial resolves with a connection
TransportSucceed(d, a) ==
  /\ a \in DOMAIN jobs[d]
  /\ jobs[d][a].st = "dialing"
  /\ ~JobAborted(inv, shutDown, jobs, d, a)
  /\ \E q \in {RunQueues(inv, shutDown, OnDialSuccess(jobs, d, a), gqueue, dialInfo)} :
     \E s \in {Settle(inv, q.jobs, q.info, pendingDials)} :
        /\ inv' = s.inv
        /\ jobs' = s.jobs
        /\ dialInfo' = s.info
        /\ pendingDials' = s.pending
        /\ gqueue' = q.gqueue
  /\ UNCHANGED shutDown
  /\ UNCHANGED notDial

\* the error a transport dial rejects with
TransportError(aborted) == IF aborted THEN "ABORT_ERR" ELSE "ERR_TRANSPORT_DIAL_FAILED"

\* transportManager.dial rejects: the dial failed, or its signal was aborted
TransportFail(d, a) ==
  /\ a \in DOMAIN jobs[d]
  /\ jobs[d][a].st = "dialing"
  /\ \E q \in {RunQueues(inv, shutDown,
                         [jobs EXCEPT ![d][a].st = "failed",
                                      ![d][a].err = TransportError(JobAborted(inv, shutDown, jobs, d, a))],
                         gqueue, dialInfo)} :
     \E s \in {Settle(inv, q.jobs, q.info, pendingDials)} :
        /\ inv' = s.inv
        /\ jobs' = s.jobs
        /\ dialInfo' = s.info
        /\ pendingDials' = s.pending
        /\ gqueue' = q.gqueue
  /\ UNCHANGED shutDown
  /\ UNCHANGED notDial

\* the signals that have fired so far
SignalsFired ==
  Cardinality({i \in Invs : inv[i].userAborted}) + Cardinality({i \in Invs : inv[i].timedOut})

\* the TimeoutController of an invocation fires
TimeoutFire(i) ==
  /\ SignalsFired < MaxAborts
  /\ inv[i].st \in {"calc", "awaiting", "joined"}
  /\ ~inv[i].timedOut
  /\ ~inv[i].timerCleared
  /\ inv' = [inv EXCEPT ![i].timedOut = TRUE]
  /\ UNCHANGED <<pendingDials, dialInfo, jobs, gqueue, shutDown>>
  /\ UNCHANGED notDial

\* the signal the caller passed to dial() is aborted
UserAbort(i) ==
  /\ SignalsFired < MaxAborts
  /\ inv[i].st \in {"calc", "awaiting", "joined"}
  /\ ~inv[i].userAborted
  /\ inv' = [inv EXCEPT ![i].userAborted = TRUE]
  /\ UNCHANGED <<pendingDials, dialInfo, jobs, gqueue, shutDown>>
  /\ UNCHANGED notDial

\* cancelPendingDials()
CancelPendingDials ==
  /\ ~shutDown
  /\ shutDown' = TRUE
  /\ UNCHANGED <<inv, pendingDials, dialInfo, jobs, gqueue>>
  /\ UNCHANGED notDial

NoPrune == [before |-> 0, closed |-> {}, kept |-> {}]

InitCMVars ==
  /\ connections = <<>>
  /\ opening = {}
  /\ tagValue = [p \in CMPeers |-> 0]
  /\ keepAlive = {}
  /\ lastPrune = NoPrune
  /\ clock = 0

\* ------------------------------------------------------------------------
\* Identify: messages, the Peer Store entry, the calls
\* ------------------------------------------------------------------------
IdOps == 1..MaxIdOps
IdConns == 1..MaxIdConns
Remote == "P"                    \* connection.remotePeer

NoRecord == [seq |-> 0, addresses |-> {}]

\* an Identify message: the peer id of its public key ("none": no key), its
\* signedPeerRecord ("none", "ok", or "bad": openAndCertify or a peer id check
\* throws), the record's sequence number and multiaddrs, its protocols
IdMsg(k, r, n, as, ps) == [key |-> k, record |-> r, seq |-> n, recAddrs |-> as, protocols |-> ps]

IdProtocols == {{"/a"}, {"/a", "/b"}}

IdMessages ==
  {IdMsg(Remote, "none", 0, {}, ps) : ps \in IdProtocols}
    \cup {IdMsg(Remote, "ok", n, as, ps) : n \in 1..MaxSeq, as \in {{}, {1}}, ps \in IdProtocols}
    \cup {IdMsg(Remote, "bad", 1, {1}, {"/a"}), IdMsg("Q", "none", 0, {}, {"/a"}),
          IdMsg(Self, "none", 0, {}, {"/a"}), IdMsg("none", "none", 0, {}, {"/a"})}

NoMsg == IdMsg("none", "none", 0, {}, {})

\* the metadata keys other components keep for a peer
OtherMetadataKeys == {"custom"}

\* message.listenAddrs, the same in every message
ListenAddrs == {2}

IdleOp == [st |-> "idle", kind |-> "none", conn |-> 0, msg |-> NoMsg,
           record |-> NoRecord, hasRecord |-> FALSE, err |-> "none", metadata |-> {},
           stream |-> "none"]

InitIdVars ==
  /\ psPeer = [known |-> FALSE, record |-> NoRecord, addresses |-> {}, protocols |-> {},
               metadata |-> {}]
  /\ acceptedSeq = 0
  /\ storedKeys = {}
  /\ idOps = [h \in IdOps |-> IdleOp]
  /\ idConns = {}
  /\ eventLog = <<>>

\* ------------------------------------------------------------------------
\* Address manager: observed addresses
\* ------------------------------------------------------------------------
ObservedAddrs == {1, 3, 20}      \* the addresses peers report to have observed
TransportAddrs == {20}           \* transportManager.getAddrs()
AnnounceAddrs == {}              \* init.announce

NoCalls == [confirmed |-> FALSE, removedSince |-> FALSE, byCall |-> FALSE]

InitAMVars ==
  /\ observed = [n \in ObservedAddrs |-> "absent"]
  /\ amCalls = [n \in ObservedAddrs |-> NoCalls]
  /\ updatePending = FALSE
  /\ selfMultiaddrs = {}
  /\ capHit = FALSE
  /\ transportUp = FALSE
  /\ timerLeft = 0
  /\ sinceTrigger = DebounceTicks
  /\ bursts = 0
  /\ patches = 0
  /\ reconfirmed = {}

\* stripPeerId: our own peer id is taken off the multiaddr
StripPeerId(ma) == IF ma.p2p = Self THEN Ma(ma.ma, NoPeer) ELSE ma

\* the multiaddrs the three calls are made with
ObservedInputs == {Ma(n, p) : n \in ObservedAddrs, p \in {NoPeer, Self}}

\* getObservedAddrs().length
ObservedCount(obs) == Cardinality({n \in DOMAIN obs : obs[n] # "absent"})

\* the observedAddr field of an identify message, after getCleanMultiaddr:
\* a multiaddr, or none if the field is empty or not a multiaddr
NoObservedAddr == Ma(0, NoPeer)
IdentifyObservedAddrs == ObservedInputs \cup {NoObservedAddr}

\* a limit that lets in one address more
CanStoreObservedAtLimit(obs, oa) ==
  oa # NoObservedAddr /\ ObservedCount(obs) <= MaxObservedAddresses

\* identify(): the observed address is stored if there is one and fewer
\* than maxObservedAddresses are held
CanStoreObserved(obs, oa) ==
  oa # NoObservedAddr /\ ObservedCount(obs) < MaxObservedAddresses

\* identify(): the call of addObservedAddr under that condition
StoreObservedAddr(oa) ==
  /\ observed' = IF CanStoreObserved(observed, oa)
                   THEN [observed EXCEPT ![StripPeerId(oa).ma] =
                           IF @ = "absent" THEN "unconfident" ELSE @]
                   ELSE observed
  /\ capHit' = (capHit \/ (oa # NoObservedAddr
                            /\ ObservedCount(observed) >= MaxObservedAddresses))
  /\ UNCHANGED <<amCalls, selfMultiaddrs, transportUp, amDebounce, reconfirmed>>

\* ------------------------------------------------------------------------
\* Auto-dial
\* ------------------------------------------------------------------------
MaxAutoDials == 2                \* autoDial() invocations
AutoDialConcurrency == 2         \* init.autoDialConcurrency
MinConnections == 2              \* init.minConnections

AutoDials == 1..MaxAutoDials
StoredPeers == {"A", "B", "C", "D"}      \* peerStore.all()
\* peer.addresses.length per stored peer
StoredAddressCount == [p \in StoredPeers |-> IF p = "C" THEN 0 ELSE 1]
\* the sum of the tag values per stored peer
StoredTagSum == [p \in StoredPeers |-> IF p = "A" THEN 10 ELSE 0]

IdlePass == [pc |-> "idle", peers |-> {}]

InitADVars ==
  /\ adPass = [h \in AutoDials |-> IdlePass]
  /\ adQueue = <<>>
  /\ adRunning = [p \in StoredPeers |-> 0]
  /\ adConns = {}
  /\ adDialing = {}
  /\ adOpened = {}
  /\ adCleared = {}
  /\ adStopped = FALSE

\* ------------------------------------------------------------------------
\* The node: start and stop
\* ------------------------------------------------------------------------
MaxNodeOps == 2                  \* start() and stop() calls in flight

NodeOps == 1..MaxNodeOps
IdleNodeOp == [kind |-> "none", pc |-> "idle", failed |-> FALSE, overtaken |-> FALSE]

InitNodeVars ==
  /\ started = FALSE
  /\ selfKey = FALSE
  /\ serviceState = "created"
  /\ running = FALSE
  /\ nodeHist = [stopDone |-> FALSE, startRejected |-> FALSE]
  /\ nodeOps = [h \in NodeOps |-> IdleNodeOp]

\* ------------------------------------------------------------------------
\* The connection
\* ------------------------------------------------------------------------
MaxConnOps == 2                  \* close() and newStream() calls in flight
MaxStreams == 2                  \* streams opened on the connection

ConnOps == 1..MaxConnOps
StreamIds == 1..MaxStreams
IdleConnOp == [kind |-> "none", pc |-> "idle"]

\* the protocols the application handles, besides those of identify
AppProtocols == {"/echo"}
PushOps == 1..MaxPushOps

IdlePush == [st |-> "idle", kind |-> "none", proto |-> "none", undone |-> FALSE,
             peerReady |-> FALSE,
             targets |-> {}, protocols |-> {},
             streams |-> [c \in 1..MaxIdConns |-> "none"],
             results |-> [c \in 1..MaxIdConns |-> "none"]]

InitPushVars ==
  /\ idStarted = FALSE
  /\ handlers = {}
  /\ pushOps = [o \in PushOps |-> IdlePush]
  /\ pushWire = {}
  /\ remoteProtocols = {}
  /\ remoteSaw = {}

NoPass == [pc |-> "none", todo |-> {}, opened |-> {}]

InitKAVars ==
  /\ cmStarted = FALSE
  /\ cmStarts = 0
  /\ reconnect = [k \in 1..MaxStarts |-> NoPass]

\* the state of the other components while protocol select is looked at
InitMSVars ==
  /\ dialer = [list |-> <<>>, next |-> 0, st |-> "start", protocol |-> "none"]
  /\ listener = [supported |-> {}, st |-> "start", protocol |-> "none"]
  /\ toListener = <<>>
  /\ toDialer = <<>>

InitConnVars ==
  /\ status = "open"
  /\ streams = [i \in StreamIds |-> "none"]
  /\ maConn = "open"
  /\ connOps = [h \in ConnOps |-> IdleConnOp]
  /\ seenStatus = {"open"}
  /\ gained = {}

InitDial == InitDialVars /\ InitCMVars /\ InitIdVars /\ InitAMVars /\ InitADVars /\ InitNodeVars /\ InitConnVars /\ InitPushVars /\ InitKAVars /\ InitMSVars

NextDial ==
  \/ \E i \in Invs, t \in Targets : DialStart(i, t)
  \/ \E i \in Invs, dnsOk \in BOOLEAN : CalcFinish(i, dnsOk)
  \/ \E d \in Invs, a \in 1..MaxPeerAddrsToDial : TransportSucceed(d, a)
  \/ \E d \in Invs, a \in 1..MaxPeerAddrsToDial : TransportFail(d, a)
  \/ \E i \in Invs : TimeoutFire(i)
  \/ \E i \in Invs : UserAbort(i)
  \/ CancelPendingDials

SpecDial == InitDial /\ [][NextDial]_vars

\* the awaited collaborators return and a transport settles a dial it was
\* asked to abort
SpecDialFair ==
  /\ SpecDial
  /\ WF_vars(\E i \in Invs, dnsOk \in BOOLEAN : CalcFinish(i, dnsOk))
  /\ WF_vars(\E d \in Invs, a \in 1..MaxPeerAddrsToDial : TransportFail(d, a))

\* ------------------------------------------------------------------------
\* Connection manager: inventory and pruning
\* ------------------------------------------------------------------------
ConnSet == {connections[k] : k \in 1..Len(connections)}

\* a connection as the pruning run sees it: with the tags of its peer
Tagged(c) == [id |-> c.id, peer |-> c.peer, keepAlive |-> c.peer \in keepAlive,
              value |-> tagValue[c.peer]]

\* an order that looks at the summed tag values and the age only
ClosedBeforeIgnoringKeepAlive(x, y) ==
  \/ x.value < y.value
  \/ x.value = y.value /\ x.id > y.id

\* the pruning order, from the tail: x is closed before y when y is KEEP_ALIVE
\* and x is not; else when the tags of x's peer sum to less; else when x is
\* the younger connection
ClosedBefore(x, y) ==
  \/ ~x.keepAlive /\ y.keepAlive
  \/ x.keepAlive = y.keepAlive /\ x.value < y.value
  \/ x.keepAlive = y.keepAlive /\ x.value = y.value /\ x.id > y.id

\* a pruning run that stops one connection above the limit
ToPruneStopsEarly(count) == IF count > MaxConnections + 1 THEN count - MaxConnections - 1 ELSE 0

\* the number of connections a pruning run closes
ToPrune(count) == IF count > MaxConnections THEN count - MaxConnections ELSE 0

\* the n connections at the tail of the sorted list
ToClose(cs, n) == {x \in cs : Cardinality({y \in cs : ClosedBefore(y, x)}) < n}

InitCM == InitDialVars /\ InitCMVars /\ InitIdVars /\ InitAMVars /\ InitADVars /\ InitNodeVars /\ InitConnVars /\ InitPushVars /\ InitKAVars /\ InitMSVars

\* the tagPeer calls made so far
TagsSet == Cardinality({p \in CMPeers : tagValue[p] # 0}) + Cardinality(keepAlive)

\* peerStore.tagPeer(peer, tag, {value})
TagPeer(p, v) ==
  /\ TagsSet < MaxTags
  /\ tagValue[p] = 0
  /\ tagValue' = [tagValue EXCEPT ![p] = v]
  /\ UNCHANGED <<connections, opening, keepAlive, lastPrune, clock>>
  /\ UNCHANGED notCM

\* peerStore.tagPeer(peer, KEEP_ALIVE)
TagKeepAlive(p) ==
  /\ TagsSet < MaxTags
  /\ p \notin keepAlive
  /\ keepAlive' = keepAlive \cup {p}
  /\ UNCHANGED <<connections, opening, tagValue, lastPrune, clock>>
  /\ UNCHANGED notCM

\* a connection to peer p opens: it enters the inventory and the handling of
\* its connection:open begins
OnConnect(p) ==
  /\ clock < MaxOpens
  /\ clock' = clock + 1
  /\ connections' = Append(connections, [id |-> clock + 1, peer |-> p])
  /\ opening' = opening \cup {clock + 1}
  /\ lastPrune' = NoPrune
  /\ UNCHANGED <<tagValue, keepAlive>>
  /\ UNCHANGED notCM

\* the handling of the connection:open of connection c ends with the pruning
\* run: once the count is above maxConnections the connections are sorted and
\* closed from the tail until the count is maxConnections
MaybePruneConnections(c) ==
  /\ c \in opening
  /\ \E cs \in {{Tagged(x) : x \in ConnSet}} :
     \E closed \in {ToClose(cs, ToPrune(Len(connections)))} :
       /\ connections' = SelectSeq(connections, LAMBDA x : Tagged(x) \notin closed)
       /\ lastPrune' = IF closed = {} THEN lastPrune
                       ELSE [before |-> Len(connections), closed |-> closed, kept |-> cs \ closed]
  /\ opening' = opening \ {c}
  /\ UNCHANGED <<tagValue, keepAlive, clock>>
  /\ UNCHANGED notCM

\* a connection whose connection:open has been handled closes for another
\* reason
OnDisconnect(c) ==
  /\ \E k \in 1..Len(connections) : connections[k].id = c
  /\ c \notin opening
  /\ connections' = SelectSeq(connections, LAMBDA x : x.id # c)
  /\ UNCHANGED <<opening, tagValue, keepAlive, lastPrune, clock>>
  /\ UNCHANGED notCM

NextCM ==
  \/ \E p \in CMPeers, v \in TagValues : TagPeer(p, v)
  \/ \E p \in CMPeers : TagKeepAlive(p)
  \/ \E p \in CMPeers : OnConnect(p)
  \/ \E c \in 1..MaxOpens : MaybePruneConnections(c)
  \/ \E c \in 1..MaxOpens : OnDisconnect(c)

SpecCM == InitCM /\ [][NextCM]_vars

\* ------------------------------------------------------------------------
\* Identify: identify(), _handlePush, #consumeIdentifyMessage
\* ------------------------------------------------------------------------

\* a consumed record that is not marked as certified
CertifiedAddressesUnmarked(rec) == {[multiaddr |-> a, isCertified |-> FALSE] : a \in rec.addresses}

\* the signed multiaddrs override the stored addresses
CertifiedAddresses(rec) == {[multiaddr |-> a, isCertified |-> TRUE] : a \in rec.addresses}

\* the metadata keys #consumeIdentifyMessage sets from the message
MessageVersions(m) == {"AgentVersion", "ProtocolVersion"}

\* a peer object that leaves the protocols of the message out
PeerDataNoProtocols(op) ==
  [addresses |-> IF op.hasRecord THEN CertifiedAddresses(op.record)
                 ELSE {[multiaddr |-> a, isCertified |-> FALSE] : a \in ListenAddrs},
   protocols |-> {},
   metadata |-> op.metadata \cup MessageVersions(op.msg),
   hasEnvelope |-> op.hasRecord,
   record |-> op.record]

\* the peer object #consumeIdentifyMessage hands to peerStore.patch
PeerData(op) ==
  [addresses |-> IF op.hasRecord THEN CertifiedAddresses(op.record)
                 ELSE {[multiaddr |-> a, isCertified |-> FALSE] : a \in ListenAddrs},
   protocols |-> op.msg.protocols,
   metadata |-> op.metadata \cup MessageVersions(op.msg),
   hasEnvelope |-> op.hasRecord,
   record |-> op.record]

\* peerStore.patch: the fields given replace the stored ones
PatchPeer(peer, data) ==
  [known |-> TRUE,
   record |-> IF data.hasEnvelope THEN data.record ELSE peer.record,
   addresses |-> data.addresses,
   protocols |-> data.protocols,
   metadata |-> data.metadata]

\* the record #consumeIdentifyMessage keeps: the stored one unless the
\* incoming one has a higher sequence number
WinningRecord(existing, msg) ==
  IF existing.known /\ existing.record.seq > 0 /\ existing.record.seq >= msg.seq
    THEN existing.record
    ELSE [seq |-> msg.seq, addresses |-> msg.recAddrs]

\* #consumeIdentifyMessage up to its first await that reads or writes the
\* Peer Store: a message without a record goes on to patch, a record is
\* opened and checked first
ConsumeEnter(op, m) ==
  IF m.record = "none" THEN [op EXCEPT !.st = "patching", !.msg = m, !.hasRecord = FALSE]
  ELSE IF m.record = "bad" THEN [op EXCEPT !.st = "failed", !.msg = m, !.err = "Error"]
  ELSE [op EXCEPT !.st = "getting", !.msg = m]

\* the errors _identify throws: no data, an undecodable message, the timeout
ReadErrors == {"ERR_CONNECTION_ENDED", "ERR_INVALID_MESSAGE", "ABORT_ERR"}

\* an identify() that does not compare the key with the remote peer
IdentifyErrorKeyUnchecked(m) ==
  IF m.key = "none" THEN "ERR_MISSING_PUBLIC_KEY" ELSE "none"

\* the checks of identify() on the public key of the message
IdentifyError(m) ==
  IF m.key = "none" THEN "ERR_MISSING_PUBLIC_KEY"
  ELSE IF m.key # Remote THEN "ERR_INVALID_PEER"
  ELSE IF m.key = Self THEN "ERR_INVALID_PEER"
  ELSE "none"

FreeOp(h) == idOps[h].st = "idle" /\ \A g \in IdOps : g < h => idOps[g].st # "idle"

\* an upgrader that announces no connection
OpenEventsNone(c) == <<>>

\* the events the upgrader dispatches for a new connection
OpenEvents(c) == <<[type |-> "connection:open", conn |-> c, op |-> 0]>>

\* upgradeOutbound / upgradeInbound: the connection is created and
\* connection:open dispatched; the listener of the identify service calls
\* identify(connection)
Upgrade(c, h) ==
  /\ c \notin idConns
  /\ \A b \in IdConns : b < c => b \in idConns
  /\ FreeOp(h)
  /\ idConns' = idConns \cup {c}
  /\ eventLog' = eventLog \o OpenEvents(c)
  /\ idOps' = [idOps EXCEPT ![h] = [IdleOp EXCEPT !.st = "reading", !.kind = "identify", !.conn = c]]
  /\ UNCHANGED <<psPeer, acceptedSeq, storedKeys>>
  /\ UNCHANGED notId

\* identify(connection) called by a holder of the connection
IdentifyStart(h, c) ==
  /\ c \in idConns
  /\ FreeOp(h)
  /\ idOps' = [idOps EXCEPT ![h] = [IdleOp EXCEPT !.st = "reading", !.kind = "identify", !.conn = c]]
  /\ UNCHANGED <<psPeer, acceptedSeq, storedKeys, idConns, eventLog>>
  /\ UNCHANGED notId

\* a finally block that leaves the stream as it is
CloseStreamSkipped(stream) == stream

\* finally: the stream is closed if one has been opened
CloseStream(stream) == IF stream = "open" THEN "closed" ELSE stream

\* _identify: connection.newStream returns the stream
IdentifyStreamOpened(h) ==
  /\ idOps[h].st = "reading"
  /\ idOps[h].stream = "none"
  /\ idOps' = [idOps EXCEPT ![h].stream = "open"]
  /\ UNCHANGED <<psPeer, acceptedSeq, storedKeys, idConns, eventLog>>
  /\ UNCHANGED notId

\* _identify throws: the stream could not be opened, no data, timeout
IdentifyReadFails(h, err) ==
  /\ idOps[h].st = "reading"
  /\ idOps' = [idOps EXCEPT ![h].st = "failed", ![h].err = err,
                            ![h].stream = CloseStream(@)]
  /\ UNCHANGED <<psPeer, acceptedSeq, storedKeys, idConns, eventLog>>
  /\ UNCHANGED notId

\* _identify returns message m: identify() checks the public key against the
\* remote peer and enters #consumeIdentifyMessage
IdentifyRead(h, m, oa) ==
  /\ idOps[h].st = "reading"
  /\ idOps[h].stream = "open"
  /\ idOps' = [idOps EXCEPT ![h] =
       IF IdentifyError(m) # "none"
         THEN [@ EXCEPT !.st = "failed", !.msg = m, !.err = IdentifyError(m),
                        !.stream = CloseStream(@)]
         ELSE ConsumeEnter([@ EXCEPT !.stream = CloseStream(@)], m)]
  /\ IF IdentifyError(m) # "none" THEN UNCHANGED amVars ELSE StoreObservedAddr(oa)
  /\ UNCHANGED <<psPeer, acceptedSeq, storedKeys, idConns, eventLog>>
  /\ UNCHANGED <<dialVars, cmVars, adVars, nodeVars, connVars, pushVars, kaVars, msVars>>

\* _handlePush: a push stream of connection c delivers message m, which
\* enters #consumeIdentifyMessage
PushReceive(h, c, m) ==
  /\ c \in idConns
  /\ FreeOp(h)
  /\ m.key = Remote
  /\ idOps' = [idOps EXCEPT ![h] =
       ConsumeEnter([IdleOp EXCEPT !.kind = "push", !.conn = c], m)]
  /\ UNCHANGED <<psPeer, acceptedSeq, storedKeys, idConns, eventLog>>
  /\ UNCHANGED notId

\* peerStore.get(peerRecord.peerId) returns and the incoming record is
\* compared to the stored one
GetExisting(h) ==
  /\ idOps[h].st = "getting"
  /\ idOps' = [idOps EXCEPT ![h].st = "patching", ![h].hasRecord = TRUE,
                            ![h].record = WinningRecord(psPeer, idOps[h].msg),
                            ![h].metadata = IF psPeer.known THEN psPeer.metadata ELSE {}]
  /\ UNCHANGED <<psPeer, acceptedSeq, storedKeys, idConns, eventLog>>
  /\ UNCHANGED notId

\* the peer:identify event identify() dispatches, with the Peer Store's entry
\* at that moment
IdentifyEvent(h, op, peer) ==
  [type |-> "peer:identify", conn |-> op.conn, op |-> h, msg |-> op.msg,
   hasRecord |-> op.hasRecord, signedPeerRecord |-> op.record,
   protocols |-> peer.protocols, addresses |-> peer.addresses]

\* peerStore.patch returns; #consumeIdentifyMessage returns and identify()
\* dispatches peer:identify
Patch(h) ==
  /\ idOps[h].st = "patching"
  /\ \E peer \in {PatchPeer(psPeer, PeerData(idOps[h]))} :
       /\ psPeer' = peer
       /\ acceptedSeq' = IF peer.record.seq > acceptedSeq THEN peer.record.seq ELSE acceptedSeq
       /\ storedKeys' = storedKeys \cup peer.metadata
       /\ eventLog' = IF idOps[h].kind = "identify"
                        THEN Append(eventLog, IdentifyEvent(h, idOps[h], peer))
                        ELSE eventLog
  /\ idOps' = [idOps EXCEPT ![h].st = "done"]
  /\ UNCHANGED idConns
  /\ UNCHANGED notId

\* peerStore.merge(remotePeer, { metadata }) by another component of the node
MergeMetadata(key) ==
  /\ key \notin psPeer.metadata
  /\ psPeer' = [psPeer EXCEPT !.known = TRUE, !.metadata = @ \cup {key}]
  /\ storedKeys' = storedKeys \cup {key}
  /\ UNCHANGED <<acceptedSeq, idOps, idConns, eventLog>>
  /\ UNCHANGED notId

InitIdentify == InitDialVars /\ InitCMVars /\ InitIdVars /\ InitAMVars /\ InitADVars /\ InitNodeVars /\ InitConnVars /\ InitPushVars /\ InitKAVars /\ InitMSVars

NextIdentify ==
  \/ \E c \in IdConns, h \in IdOps : Upgrade(c, h)
  \/ \E h \in IdOps, c \in IdConns : IdentifyStart(h, c)
  \/ \E h \in IdOps : IdentifyStreamOpened(h)
  \/ \E h \in IdOps, err \in ReadErrors : IdentifyReadFails(h, err)
  \/ \E h \in IdOps, m \in IdMessages, oa \in IdentifyObservedAddrs : IdentifyRead(h, m, oa)
  \/ \E h \in IdOps, c \in IdConns, m \in IdMessages : PushReceive(h, c, m)
  \/ \E h \in IdOps : GetExisting(h)
  \/ \E h \in IdOps : Patch(h)
  \/ \E key \in OtherMetadataKeys : MergeMetadata(key)

SpecIdentify == InitIdentify /\ [][NextIdentify]_vars

\* ------------------------------------------------------------------------
\* Address manager: addObservedAddr, confirmObservedAddr, removeObservedAddr,
\* getAddresses
\* ------------------------------------------------------------------------

\* a list of observed addresses that ignores the confidence
ObservedAddrsAll(obs) == {Ma(n, NoPeer) : n \in {k \in DOMAIN obs : obs[k] # "absent"}}

\* the observed addresses we are confident in
ConfidentAddrs(obs) == {Ma(n, NoPeer) : n \in {k \in DOMAIN obs : obs[k] = "confident"}}

\* our peer id is appended unless the multiaddr is a path or ends with it
WithPeerId(ma) ==
  IF ma.ma \in PathAddrs THEN ma
  ELSE IF ma.p2p = Self THEN ma
  ELSE Ma(ma.ma, Self)

\* transportManager.getAddrs()
ListeningAddrs == IF transportUp THEN TransportAddrs ELSE {}

\* a call of the debounced _updatePeerStoreAddresses: the timer is set anew.
\* call: the code makes the call; change: the addresses have changed, which
\* begins a burst unless the last change is less than a second ago
DebouncedUpdate(call, change) ==
  /\ (call \/ change) => ~(updatePending /\ timerLeft = 0)
  /\ (change /\ sinceTrigger = DebounceTicks) => bursts < MaxBursts
  /\ updatePending' = (updatePending \/ call)
  /\ timerLeft' = IF call THEN DebounceTicks ELSE timerLeft
  /\ sinceTrigger' = IF change THEN 0 ELSE sinceTrigger
  /\ bursts' = IF change /\ sinceTrigger = DebounceTicks THEN bursts + 1 ELSE bursts
  /\ UNCHANGED patches

\* every confirmation taken for a change of confidence
ConfidenceChangedAlways(startingConfidence) == TRUE

\* confirmObservedAddr: !startingConfidence
ConfidenceChanged(startingConfidence) == startingConfidence # "confident"

\* getAddresses(): the announce addresses, or the transports' addresses if
\* none is configured, and the confident observed addresses; deduplicated,
\* with our peer id, through the default announce filter
GetAddresses(obs) ==
  LET configured == IF AnnounceAddrs # {}
                      THEN {Ma(n, NoPeer) : n \in AnnounceAddrs}
                      ELSE {Ma(n, NoPeer) : n \in ListeningAddrs}
  IN {WithPeerId(ma) : ma \in configured \cup ConfidentAddrs(obs)}

\* addObservedAddr: an address we already know about is left as it is
AddObservedAddr(addr) ==
  /\ observed' = [observed EXCEPT ![StripPeerId(addr).ma] =
                    IF @ = "absent" THEN "unconfident" ELSE @]
  /\ amCalls' = [amCalls EXCEPT ![StripPeerId(addr).ma].byCall =
                    @ \/ observed[StripPeerId(addr).ma] = "absent"]
  /\ UNCHANGED <<selfMultiaddrs, capHit, transportUp, amDebounce, reconfirmed>>
  /\ UNCHANGED notAM

\* confirmObservedAddr: the address becomes confident, known before or not;
\* the stored addresses are updated (debounced) if the confidence changed
ConfirmObservedAddr(addr) ==
  /\ observed' = [observed EXCEPT ![StripPeerId(addr).ma] = "confident"]
  /\ amCalls' = [amCalls EXCEPT ![StripPeerId(addr).ma] =
                    [confirmed |-> TRUE, removedSince |-> FALSE,
                     byCall |-> @.byCall \/ observed[StripPeerId(addr).ma] = "absent"]]
  /\ DebouncedUpdate(ConfidenceChanged(observed[StripPeerId(addr).ma]),
                     observed[StripPeerId(addr).ma] # "confident")
  /\ reconfirmed' = IF observed[StripPeerId(addr).ma] = "confident"
                      THEN reconfirmed \cup {addr.p2p} ELSE reconfirmed
  /\ UNCHANGED <<selfMultiaddrs, capHit, transportUp>>
  /\ UNCHANGED notAM

RemoveObservedAddr(addr) ==
  /\ observed' = [observed EXCEPT ![StripPeerId(addr).ma] = "absent"]
  /\ amCalls' = [amCalls EXCEPT ![StripPeerId(addr).ma].removedSince = TRUE,
                                ![StripPeerId(addr).ma].byCall = FALSE]
  /\ UNCHANGED <<selfMultiaddrs, capHit, transportUp, amDebounce, reconfirmed>>
  /\ UNCHANGED notAM

\* _updatePeerStoreAddresses, when the debounce timer fires: announce,
\* transport and confident observed addresses, without our peer id
UpdatePeerStoreAddresses ==
  /\ updatePending
  /\ timerLeft = 0
  /\ updatePending' = FALSE
  /\ patches' = patches + 1
  /\ selfMultiaddrs' = {StripPeerId(ma) :
        ma \in {Ma(n, NoPeer) : n \in AnnounceAddrs \cup ListeningAddrs} \cup ConfidentAddrs(observed)}
  /\ UNCHANGED <<observed, amCalls, capHit, transportUp, timerLeft, sinceTrigger, bursts, reconfirmed>>
  /\ UNCHANGED notAM

\* a transport starts to listen: transport:listening
TransportListening ==
  /\ transportUp' = TRUE
  /\ DebouncedUpdate(TRUE, TRUE)
  /\ UNCHANGED <<observed, amCalls, selfMultiaddrs, capHit, reconfirmed>>
  /\ UNCHANGED notAM

\* the transport stops to listen: transport:close
TransportClose ==
  /\ transportUp' = FALSE
  /\ DebouncedUpdate(TRUE, TRUE)
  /\ UNCHANGED <<observed, amCalls, selfMultiaddrs, capHit, reconfirmed>>
  /\ UNCHANGED notAM

\* time passes; a timer that is due fires before any more time passes
Tick ==
  /\ ~(updatePending /\ timerLeft = 0)
  /\ (updatePending /\ timerLeft > 0) \/ sinceTrigger < DebounceTicks
  /\ timerLeft' = IF updatePending /\ timerLeft > 0 THEN timerLeft - 1 ELSE timerLeft
  /\ sinceTrigger' = IF sinceTrigger < DebounceTicks THEN sinceTrigger + 1 ELSE sinceTrigger
  /\ UNCHANGED <<observed, amCalls, selfMultiaddrs, capHit, transportUp, updatePending,
                 bursts, patches, reconfirmed>>
  /\ UNCHANGED notAM

\* identify() has read a valid message from a peer that observed us at oa
IdentifyObserved(oa) ==
  /\ StoreObservedAddr(oa)
  /\ UNCHANGED notAM

InitAM == InitDialVars /\ InitCMVars /\ InitIdVars /\ InitAMVars /\ InitADVars /\ InitNodeVars /\ InitConnVars /\ InitPushVars /\ InitKAVars /\ InitMSVars

NextAM ==
  \/ \E addr \in ObservedInputs : AddObservedAddr(addr)
  \/ \E addr \in ObservedInputs : ConfirmObservedAddr(addr)
  \/ \E addr \in ObservedInputs : RemoveObservedAddr(addr)
  \/ UpdatePeerStoreAddresses
  \/ \E oa \in IdentifyObservedAddrs : IdentifyObserved(oa)
  \/ TransportListening
  \/ TransportClose
  \/ Tick

SpecAM == InitAM /\ [][NextAM]_vars

\* ------------------------------------------------------------------------
\* Auto-dial: autoDial, the queued jobs, and the connection manager around them
\* ------------------------------------------------------------------------

\* autoDial: numConnections >= this.minConnections
HasEnoughConnections(conns) == Cardinality(conns) >= MinConnections

\* a queued job that does not look at the number of connections again
GotEnoughConnectionsNever(conns) == FALSE

\* the queued job: numConnections >= this.minConnections
GotEnoughConnections(conns) == Cardinality(conns) >= MinConnections

\* all peers but those without addresses
DialablePeers == {p \in StoredPeers : StoredAddressCount[p] # 0}

\* the orders the shuffle and the sort by tag value can produce: every
\* order of the peers in which no peer stands before one of higher value
SortedPeers(peers) ==
  {s \in [1..Cardinality(peers) -> peers] :
     /\ \A i, j \in DOMAIN s : i # j => s[i] # s[j]
     /\ \A i, j \in DOMAIN s : i < j => StoredTagSum[s[i]] >= StoredTagSum[s[j]]}

RunningCount ==
  LET RECURSIVE Sum(_)
      Sum(ps) == IF ps = {} THEN 0
                 ELSE LET p == CHOOSE q \in ps : TRUE
                      IN adRunning[p] + Sum(ps \ {p})
  IN Sum(StoredPeers)

\* autoDial(), up to the await of peerStore.all() (the calls made before
\* stop() are looked at)
AutoDialCall(h) ==
  /\ adPass[h].pc = "idle"
  /\ ~adStopped
  /\ adPass' = [adPass EXCEPT ![h].pc =
                  IF HasEnoughConnections(adConns) THEN "done" ELSE "all"]
  /\ UNCHANGED <<adQueue, adRunning, adConns, adDialing, adOpened, adCleared, adStopped>>
  /\ UNCHANGED notAD

\* peerStore.all() has resolved: the peers without addresses are removed,
\* the rest shuffled; the tags of the peers are awaited next
AutoDialLoaded(h) ==
  /\ adPass[h].pc = "all"
  /\ adPass' = [adPass EXCEPT ![h] = [pc |-> "tags", peers |-> DialablePeers]]
  /\ UNCHANGED <<adQueue, adRunning, adConns, adDialing, adOpened, adCleared, adStopped>>
  /\ UNCHANGED notAD

\* the tags have been read: the peers are sorted by value and one job per
\* peer is added to the queue
AutoDialEnqueue(h) ==
  /\ adPass[h].pc = "tags"
  /\ \E sortedPeers \in SortedPeers(adPass[h].peers) :
       adQueue' = adQueue \o sortedPeers
  /\ adPass' = [adPass EXCEPT ![h] = [pc |-> "done", peers |-> {}]]
  /\ UNCHANGED <<adRunning, adConns, adDialing, adOpened, adCleared, adStopped>>
  /\ UNCHANGED notAD

\* the queue starts its next job: the job checks the number of connections
\* again, clears the queue if there are enough, opens a connection otherwise
JobStart ==
  /\ adQueue # <<>>
  /\ RunningCount < AutoDialConcurrency
  /\ LET peer == Head(adQueue) IN
       IF GotEnoughConnections(adConns)
         THEN /\ adQueue' = <<>>
              /\ adCleared' = adCleared \cup
                   {[enough |-> Cardinality(adConns) >= MinConnections, queued |-> Len(adQueue')]}
              /\ UNCHANGED <<adRunning, adDialing, adOpened>>
         ELSE /\ adQueue' = Tail(adQueue)
              /\ adRunning' = [adRunning EXCEPT ![peer] = @ + 1]
              /\ adDialing' = IF peer \in adConns THEN adDialing
                              ELSE adDialing \cup {peer}
              /\ adOpened' = adOpened \cup
                   {[peer |-> peer, enough |-> Cardinality(adConns) >= MinConnections,
                     connected |-> peer \in adConns,
                     dialing |-> peer \in adDialing,
                     stopped |-> adStopped]}
              /\ UNCHANGED adCleared
  /\ UNCHANGED <<adPass, adConns, adStopped>>
  /\ UNCHANGED notAD

\* stop(): the jobs that have not started are taken off the queue
AutoDialStop ==
  /\ ~adStopped
  /\ adStopped' = TRUE
  /\ adQueue' = <<>>
  /\ UNCHANGED <<adPass, adRunning, adConns, adDialing, adOpened, adCleared>>
  /\ UNCHANGED notAD

\* openConnection settles: with a connection to the peer, or with an error
OpenConnectionSettle(peer, ok) ==
  /\ adRunning[peer] > 0
  /\ adRunning' = [adRunning EXCEPT ![peer] = @ - 1]
  /\ adDialing' = adDialing \ {peer}
  /\ adConns' = IF ok THEN adConns \cup {peer} ELSE adConns
  /\ UNCHANGED <<adPass, adQueue, adOpened, adCleared, adStopped>>
  /\ UNCHANGED notAD

\* somebody else dials a peer we are not connected to
OtherDial(peer) ==
  /\ peer \notin adConns
  /\ peer \notin adDialing
  /\ adDialing' = adDialing \cup {peer}
  /\ UNCHANGED <<adPass, adQueue, adRunning, adConns, adOpened, adCleared, adStopped>>
  /\ UNCHANGED notAD

\* that dial settles
OtherDialSettle(peer, ok) ==
  /\ peer \in adDialing
  /\ adRunning[peer] = 0
  /\ adDialing' = adDialing \ {peer}
  /\ adConns' = IF ok THEN adConns \cup {peer} ELSE adConns
  /\ UNCHANGED <<adPass, adQueue, adRunning, adOpened, adCleared, adStopped>>
  /\ UNCHANGED notAD

\* a connection closes
ConnectionClose(peer) ==
  /\ peer \in adConns
  /\ adConns' = adConns \ {peer}
  /\ UNCHANGED <<adPass, adQueue, adRunning, adDialing, adOpened, adCleared, adStopped>>
  /\ UNCHANGED notAD

InitAutoDial == InitDialVars /\ InitCMVars /\ InitIdVars /\ InitAMVars /\ InitADVars /\ InitNodeVars /\ InitConnVars /\ InitPushVars /\ InitKAVars /\ InitMSVars

NextAutoDial ==
  \/ \E h \in AutoDials : AutoDialCall(h)
  \/ \E h \in AutoDials : AutoDialLoaded(h)
  \/ \E h \in AutoDials : AutoDialEnqueue(h)
  \/ JobStart
  \/ \E peer \in StoredPeers, ok \in BOOLEAN : OpenConnectionSettle(peer, ok)
  \/ \E peer \in StoredPeers : OtherDial(peer)
  \/ \E peer \in StoredPeers, ok \in BOOLEAN : OtherDialSettle(peer, ok)
  \/ \E peer \in StoredPeers : ConnectionClose(peer)

SpecAutoDial == InitAutoDial /\ [][NextAutoDial]_vars

\* the auto-dialer with stop(), nobody else dialling or closing connections
NextAutoDialStop ==
  \/ \E h \in AutoDials : AutoDialCall(h)
  \/ \E h \in AutoDials : AutoDialLoaded(h)
  \/ \E h \in AutoDials : AutoDialEnqueue(h)
  \/ JobStart
  \/ AutoDialStop
  \/ \E peer \in StoredPeers, ok \in BOOLEAN : OpenConnectionSettle(peer, ok)

SpecAutoDialStop == InitAutoDial /\ [][NextAutoDialStop]_vars

\* ------------------------------------------------------------------------
\* The node: start(), stop(), isStarted()
\* ------------------------------------------------------------------------

\* isStarted()
IsStarted == started

\* the status the node reports: it keeps one boolean
NodeStatus == IF IsStarted THEN "started" ELSE "stopped"

\* stop(), up to its first await: nothing to do unless started
StopEnter(op) ==
  IF ~started THEN IdleNodeOp
  ELSE [op EXCEPT !.kind = "stop", !.pc = "beforeStop"]

\* (history) the calls in progress are marked when start() is called
Overtaken(ops) ==
  [g \in NodeOps |-> IF ops[g].pc = "idle" THEN ops[g] ELSE [ops[g] EXCEPT !.overtaken = TRUE]]

\* start(), up to the await of keychain.listKeys()
Start(h) ==
  /\ nodeOps[h].pc = "idle"
  /\ IF started
       THEN /\ UNCHANGED started
            /\ nodeOps' = Overtaken(nodeOps)
            /\ nodeHist' = [nodeHist EXCEPT !.stopDone = FALSE]
       ELSE /\ started' = TRUE
            /\ nodeOps' = [Overtaken(nodeOps) EXCEPT ![h] =
                             [IdleNodeOp EXCEPT !.kind = "start", !.pc = "listKeys"]]
            /\ nodeHist' = [stopDone |-> FALSE, startRejected |-> FALSE]
  /\ UNCHANGED <<selfKey, serviceState, running>>
  /\ UNCHANGED notNode

\* listKeys has resolved: the self key is imported if it is missing
StartListedKeys(h) ==
  /\ nodeOps[h].pc = "listKeys"
  /\ nodeOps' = [nodeOps EXCEPT ![h].pc = IF selfKey THEN "beforeStart" ELSE "importPeer"]
  /\ UNCHANGED <<started, selfKey, serviceState, running, nodeHist>>
  /\ UNCHANGED notNode

StartImportedPeer(h) ==
  /\ nodeOps[h].pc = "importPeer"
  /\ selfKey' = TRUE
  /\ nodeOps' = [nodeOps EXCEPT ![h].pc = "beforeStart"]
  /\ UNCHANGED <<started, serviceState, running, nodeHist>>
  /\ UNCHANGED notNode

\* keychain.listKeys or keychain.importPeer rejects: the await is outside the
\* try block, start() rejects with that error
StartKeychainFails(h) ==
  /\ nodeOps[h].pc \in {"listKeys", "importPeer"}
  /\ nodeOps' = [nodeOps EXCEPT ![h] = IdleNodeOp]
  /\ nodeHist' = [nodeHist EXCEPT !.startRejected = TRUE]
  /\ UNCHANGED <<started, selfKey, serviceState, running>>
  /\ UNCHANGED notNode

\* the services' beforeStart, start and afterStart, one after the other
StartServices(h) ==
  /\ nodeOps[h].pc \in {"beforeStart", "start", "afterStart"}
  /\ serviceState' = nodeOps[h].pc
  /\ running' = (running \/ nodeOps[h].pc = "start")
  /\ nodeOps' = [nodeOps EXCEPT ![h] =
       IF @.pc = "beforeStart" THEN [@ EXCEPT !.pc = "start"]
       ELSE IF @.pc = "start" THEN [@ EXCEPT !.pc = "afterStart"]
       ELSE IdleNodeOp]
  /\ UNCHANGED <<started, selfKey, nodeHist>>
  /\ UNCHANGED notNode

\* Promise.all over the services: when the start() of one service throws,
\* the start() of the others has been called
StartedBeforeFailure(pc) == pc \in {"start", "afterStart"}

\* a service throws: the node is stopped and the error thrown on
StartFails(h) ==
  /\ nodeOps[h].pc \in {"beforeStart", "start", "afterStart"}
  /\ started' = FALSE
  /\ nodeOps' = [nodeOps EXCEPT ![h] = [StopEnter(@) EXCEPT !.failed = (StopEnter(nodeOps[h]).pc # "idle")]]
  /\ running' = (running \/ StartedBeforeFailure(nodeOps[h].pc))
  /\ nodeHist' = [nodeHist EXCEPT !.startRejected = (@ \/ ~started)]
  /\ UNCHANGED <<selfKey, serviceState>>
  /\ UNCHANGED notNode

\* stop(), up to the await of the services' beforeStop
Stop(h) ==
  /\ nodeOps[h].pc = "idle"
  /\ started' = FALSE
  /\ nodeOps' = [nodeOps EXCEPT ![h] = StopEnter(@)]
  /\ UNCHANGED <<selfKey, serviceState, running, nodeHist>>
  /\ UNCHANGED notNode

\* the services' beforeStop, stop and afterStop, one after the other
StopServices(h) ==
  /\ nodeOps[h].pc \in {"beforeStop", "stop", "afterStop"}
  /\ serviceState' = nodeOps[h].pc
  /\ running' = (running /\ nodeOps[h].pc # "stop")
  /\ nodeOps' = [nodeOps EXCEPT ![h] =
       IF @.pc = "beforeStop" THEN [@ EXCEPT !.pc = "stop"]
       ELSE IF @.pc = "stop" THEN [@ EXCEPT !.pc = "afterStop"]
       ELSE IdleNodeOp]
  /\ nodeHist' = IF nodeOps[h].pc # "afterStop" THEN nodeHist
                  ELSE IF nodeOps[h].failed THEN [nodeHist EXCEPT !.startRejected = TRUE]
                  ELSE [nodeHist EXCEPT !.stopDone = ~nodeOps[h].overtaken]
  /\ UNCHANGED <<started, selfKey>>
  /\ UNCHANGED notNode

InitNode == InitDialVars /\ InitCMVars /\ InitIdVars /\ InitAMVars /\ InitADVars /\ InitNodeVars /\ InitConnVars /\ InitPushVars /\ InitKAVars /\ InitMSVars

NextNode ==
  \/ \E h \in NodeOps : Start(h)
  \/ \E h \in NodeOps : StartListedKeys(h)
  \/ \E h \in NodeOps : StartImportedPeer(h)
  \/ \E h \in NodeOps : StartKeychainFails(h)
  \/ \E h \in NodeOps : StartServices(h)
  \/ \E h \in NodeOps : StartFails(h)
  \/ \E h \in NodeOps : Stop(h)
  \/ \E h \in NodeOps : StopServices(h)

SpecNode == InitNode /\ [][NextNode]_vars

\* ------------------------------------------------------------------------
\* The connection: newStream(), close(), abort()
\* ------------------------------------------------------------------------

\* s.close() or s.abort() on every stream in this.streams
EndStreams(how) == [i \in StreamIds |-> IF streams[i] = "none" THEN "none"
                                        ELSE IF streams[i] = "open" THEN how
                                        ELSE streams[i]]

\* a stream id is left for one more stream
FreeStreamId ==
  Cardinality({i \in StreamIds : streams[i] = "none"})
    > Cardinality({g \in ConnOps : connOps[g].kind \in {"newStream", "incoming"}})

\* this.streams.push(stream)
PushStream ==
  /\ \E i \in StreamIds :
       /\ streams[i] = "none"
       /\ \A j \in StreamIds : j < i => streams[j] # "none"
       /\ streams' = [streams EXCEPT ![i] = "open"]
  /\ gained' = gained \cup {status}

\* newStream(), up to the await of muxer.newStream: the connection must be open
NewStream(h) ==
  /\ connOps[h].pc = "idle"
  /\ FreeStreamId
  /\ IF status # "open"
       THEN UNCHANGED connOps
       ELSE connOps' = [connOps EXCEPT ![h] = [kind |-> "newStream", pc |-> "select"]]
  /\ UNCHANGED <<status, streams, maConn, seenStatus, gained>>
  /\ UNCHANGED notConn

\* the protocol has been selected: the stream is added to this.streams
NewStreamSelected(h) ==
  /\ connOps[h].pc = "select"
  /\ PushStream
  /\ connOps' = [connOps EXCEPT ![h] = IdleConnOp]
  /\ UNCHANGED <<status, maConn, seenStatus>>
  /\ UNCHANGED notConn

\* onIncomingStream: the muxer hands over a stream the peer has opened and
\* mss.handle is started on it
IncomingStream(h) ==
  /\ connOps[h].pc = "idle"
  /\ maConn = "open"
  /\ FreeStreamId
  /\ connOps' = [connOps EXCEPT ![h] = [kind |-> "incoming", pc |-> "handle"]]
  /\ UNCHANGED <<status, streams, maConn, seenStatus, gained>>
  /\ UNCHANGED notConn

\* mss.handle has resolved: the stream is added to connection.streams and
\* given to the handler
IncomingStreamHandled(h) ==
  /\ connOps[h].pc = "handle"
  /\ PushStream
  /\ connOps' = [connOps EXCEPT ![h] = IdleConnOp]
  /\ UNCHANGED <<status, maConn, seenStatus>>
  /\ UNCHANGED notConn

\* mss.handle has rejected: the error is logged
IncomingStreamFails(h) ==
  /\ connOps[h].pc = "handle"
  /\ connOps' = [connOps EXCEPT ![h] = IdleConnOp]
  /\ UNCHANGED <<status, streams, maConn, seenStatus, gained>>
  /\ UNCHANGED notConn

\* close(), up to the await of the streams' close
Close(h) ==
  /\ connOps[h].pc = "idle"
  /\ status' = "closing"
  /\ seenStatus' = seenStatus \cup {"closing"}
  /\ connOps' = [connOps EXCEPT ![h] = [kind |-> "close", pc |-> "streams"]]
  /\ UNCHANGED <<streams, maConn, gained>>
  /\ UNCHANGED notConn

\* the streams have closed: maConn.close() is awaited
CloseStreamsClosed(h) ==
  /\ connOps[h].pc = "streams"
  /\ streams' = EndStreams("closed")
  /\ connOps' = [connOps EXCEPT ![h].pc = "maConn"]
  /\ UNCHANGED <<status, maConn, seenStatus, gained>>
  /\ UNCHANGED notConn

\* maConn.close() has resolved
CloseMaConnClosed(h) ==
  /\ connOps[h].pc = "maConn"
  /\ maConn' = IF maConn = "open" THEN "closed" ELSE maConn
  /\ status' = "closed"
  /\ seenStatus' = seenStatus \cup {"closed"}
  /\ connOps' = [connOps EXCEPT ![h] = IdleConnOp]
  /\ UNCHANGED <<streams, gained>>
  /\ UNCHANGED notConn

\* abort(err): synchronous, through 'closing' to 'closed'
Abort ==
  /\ streams' = EndStreams("aborted")
  /\ maConn' = IF maConn = "open" THEN "aborted" ELSE maConn
  /\ status' = "closed"
  /\ seenStatus' = seenStatus \cup {"closing", "closed"}
  /\ UNCHANGED <<connOps, gained>>
  /\ UNCHANGED notConn

InitConn == InitDialVars /\ InitCMVars /\ InitIdVars /\ InitAMVars /\ InitADVars /\ InitNodeVars /\ InitConnVars /\ InitPushVars /\ InitKAVars /\ InitMSVars

NextConn ==
  \/ \E h \in ConnOps : NewStream(h)
  \/ \E h \in ConnOps : NewStreamSelected(h)
  \/ \E h \in ConnOps : IncomingStream(h)
  \/ \E h \in ConnOps : IncomingStreamHandled(h)
  \/ \E h \in ConnOps : IncomingStreamFails(h)
  \/ \E h \in ConnOps : Close(h)
  \/ \E h \in ConnOps : CloseStreamsClosed(h)
  \/ \E h \in ConnOps : CloseMaConnClosed(h)
  \/ Abort

SpecConn == InitConn /\ [][NextConn]_vars

\* ------------------------------------------------------------------------
\* Properties of the dial queue
\* ------------------------------------------------------------------------
IsSettled(i) == inv[i].st \in {"resolved", "rejected"}
InPending(d) == \E k \in 1..Len(pendingDials) : pendingDials[k] = d

\* two outcomes are the same connection object, or errors with the same code
SameOutcome(r1, r2) ==
  /\ r1.kind = r2.kind
  /\ r1.kind = "conn" => (r1.dial = r2.dial /\ r1.addr = r2.addr)
  /\ r1.kind = "err" => r1.code = r2.code

\* C1: dial(P) invocations that were started before any of them settled
\* share one dial: they resolve with the same connection or reject with the
\* same error.
C1_OverlappingDialsSettleAlike ==
  \A i \in Invs : \A j \in inv[i].overlaps :
    (IsSettled(i) /\ IsSettled(j)) => SameOutcome(inv[i].result, inv[j].result)

\* C2: pendingDials never holds two Pending Dials for the same peer id.
C2_OnePendingDialPerPeer ==
  \A k, l \in 1..Len(pendingDials) :
    (k # l /\ dialInfo[pendingDials[k]].peer # NoPeer)
      => dialInfo[pendingDials[k]].peer # dialInfo[pendingDials[l]].peer

\* C2, witness: an invocation for a peer id joined the Pending Dial that
\* another invocation created for that peer with a different address list.
C2_Witness ==
  \E i \in Invs :
    /\ inv[i].st = "joined"
    /\ inv[i].target.peer # NoPeer
    /\ inv[i].target # inv[inv[i].dial].target
    /\ InPending(inv[i].dial)

\* C3: once the signal a caller passed to dial() has fired, that invocation
\* has rejected by the end of the turn, whether it created the Pending Dial
\* or joined one.
C3_CallerAbortRejects ==
  \A i \in Invs : inv[i].userAborted => inv[i].st = "rejected"

\* C4: the transport dials in progress, over all Pending Dials, never
\* exceed maxParallelDials.
C4_ParallelDialsBounded == Cardinality(GlobalRunning(jobs)) <= MaxParallelDials

\* C4, witness: the global queue is saturated and a job waits in it.
C4_Witness == gqueue # <<>> /\ Cardinality(GlobalRunning(jobs)) = MaxParallelDials

\* the address dials for peer p that sit in the global queue or at a transport
RacingOfPeer(p) ==
  {k \in JobKeys(jobs) : dialInfo[k[1]].peer = p /\ jobs[k[1]][k[2]].st \in {"gq", "dialing"}}

C7_TimeoutRejectsWithErrTimeout ==
  \A i \in Invs :
    (inv[i].st = "rejected" /\ inv[i].timedOut) => inv[i].result.code = "ERR_TIMEOUT"

C9_ConnectionCap ==
  /\ opening = {} => Len(connections) <= MaxConnections
  /\ lastPrune.before > MaxConnections =>
       lastPrune.before - Cardinality(lastPrune.closed) = MaxConnections

\* C9, witness: one connection over the limit was opened and the pruning run
\* closed one connection.
C9_Witness ==
  /\ opening = {}
  /\ Len(connections) = MaxConnections
  /\ lastPrune.before = MaxConnections + 1
  /\ Cardinality(lastPrune.closed) = 1

\* C10: a pruning run closes no connection of a KEEP_ALIVE peer while it
\* keeps one of a peer without that tag, and among the peers without it
\* closes no connection while it keeps one whose peer's tags sum to less.
C10_PruningOrder ==
  \A c \in lastPrune.closed : \A k \in lastPrune.kept :
    /\ c.keepAlive => k.keepAlive
    /\ (~c.keepAlive /\ ~k.keepAlive) => c.value <= k.value

\* C10, witness: the pruning run kept the connection of a KEEP_ALIVE peer
\* whose tags sum to no more than those of the peer it closed, kept that of
\* the higher valued of two other peers and closed that of the lower valued.
C10_Witness ==
  \E c \in lastPrune.closed : \E k1, k2 \in lastPrune.kept :
    /\ ~c.keepAlive /\ k1.keepAlive /\ k1.value <= c.value
    /\ ~k2.keepAlive /\ c.value < k2.value

\* ------------------------------------------------------------------------
\* Properties of the identify service
\* ------------------------------------------------------------------------
IdentifyEvents == {k \in 1..Len(eventLog) : eventLog[k].type = "peer:identify"}

\* C11: the sequence number of the signed peer record stored for the remote
\* peer is never lower than one stored for it before, whatever the order in
\* which identify and identify-push messages are processed.
C11_StoredSeqNeverDecreases == psPeer.record.seq >= acceptedSeq

\* C12: when peer:identify is dispatched, the protocols stored for the peer
\* contain every protocol of the identify message that caused the event.
C12_IdentifiedProtocolsStored ==
  \A k \in IdentifyEvents : eventLog[k].msg.protocols \subseteq eventLog[k].protocols

\* C12, witness: peer:identify was dispatched for a message listing two
\* protocols after another message had stored a different protocol list.
C12_Witness ==
  \E k \in IdentifyEvents :
    /\ eventLog[k].msg.protocols = {"/a", "/b"}
    /\ \E h \in IdOps : h # eventLog[k].op /\ idOps[h].st = "done" /\ idOps[h].msg.protocols = {"/a"}

\* C13, as claimed: when peer:identify is dispatched for a message with a
\* valid signedPeerRecord, the addresses stored for the peer hold at least
\* one certified entry.
C13_CertifiedAddressStored ==
  \A k \in IdentifyEvents :
    eventLog[k].msg.record = "ok" => \E a \in eventLog[k].addresses : a.isCertified

\* C13, amended: when peer:identify is dispatched for a message with a valid
\* signedPeerRecord, the addresses stored for the peer are exactly the
\* multiaddrs of the winning record, each certified; there is a certified
\* entry whenever the winning record lists a multiaddr.
C13_WinningRecordAddressesCertified ==
  \A k \in IdentifyEvents :
    eventLog[k].msg.record = "ok" =>
      /\ eventLog[k].addresses =
           {[multiaddr |-> a, isCertified |-> TRUE] : a \in eventLog[k].signedPeerRecord.addresses}
      /\ eventLog[k].signedPeerRecord.addresses # {} =>
           \E a \in eventLog[k].addresses : a.isCertified

\* C13, witness: peer:identify was dispatched for a message whose record
\* lost against the stored one, and the stored record's address is certified.
C13_Witness ==
  \E k \in IdentifyEvents :
    /\ eventLog[k].msg.record = "ok"
    /\ eventLog[k].signedPeerRecord.seq > eventLog[k].msg.seq
    /\ \E a \in eventLog[k].addresses : a.isCertified

\* C15: every peer:identify event of a connection comes after the
\* connection:open event of that connection.
C15_OpenBeforeIdentify ==
  \A k \in IdentifyEvents :
    \E j \in 1..(k - 1) :
      eventLog[j].type = "connection:open" /\ eventLog[j].conn = eventLog[k].conn

\* C15, witness: peer:identify was dispatched for the identify() call the
\* connection:open listener made.
C15_Witness ==
  \E k \in IdentifyEvents : eventLog[k].op = 1 /\ eventLog[1].type = "connection:open"

\* the identify() calls that have read a message whose key is missing or
\* is not the key of the remote peer
BadKeyOps ==
  {h \in IdOps : /\ idOps[h].kind = "identify"
                 /\ idOps[h].msg # NoMsg
                 /\ (idOps[h].msg.key = "none" \/ idOps[h].msg.key # Remote)}

\* C23: an identify that fails because the key of the message does not
\* derive the remote peer aborts the connection it ran on.
C23_MismatchAbortsConnection ==
  \A h \in IdOps :
    (idOps[h].st = "failed" /\ idOps[h].err = "ERR_INVALID_PEER")
      => idOps[h].conn \notin idConns

\* C24, as claimed: identify fails with ERR_INVALID_PEER whenever the
\* message has no publicKey or its key does not derive the remote peer.
C24_BadKeyIsInvalidPeer ==
  \A h \in BadKeyOps : idOps[h].st = "failed" /\ idOps[h].err = "ERR_INVALID_PEER"

\* C24, amended: identify fails with ERR_MISSING_PUBLIC_KEY when the message
\* has no publicKey, and with ERR_INVALID_PEER when its key does not derive
\* the remote peer; in both cases nothing of the message is consumed.
C24_BadKeyFailsWithItsCode ==
  \A h \in BadKeyOps :
    /\ idOps[h].st = "failed"
    /\ idOps[h].err = IF idOps[h].msg.key = "none" THEN "ERR_MISSING_PUBLIC_KEY"
                      ELSE "ERR_INVALID_PEER"

\* C24, witness: one identify has failed for a missing key, another for the
\* key of a different peer.
C24_Witness ==
  /\ \E h \in BadKeyOps : idOps[h].msg.key = "none" /\ idOps[h].st = "failed"
  /\ \E h \in BadKeyOps : idOps[h].msg.key = "Q" /\ idOps[h].err = "ERR_INVALID_PEER"

\* C28: processing an identify or identify-push message never removes a
\* metadata key stored for the peer: every key stored so far is still stored.
C28_MetadataKeysKept == storedKeys \subseteq psPeer.metadata

\* ------------------------------------------------------------------------
\* Properties of the address manager
\* ------------------------------------------------------------------------

\* C14, as claimed: an observed address is among getAddresses() if and only
\* if confirmObservedAddr has been called for it at least once.
C14_IncludedIffConfirmedOnce ==
  \A n \in ObservedAddrs \ (TransportAddrs \cup AnnounceAddrs) :
    WithPeerId(Ma(n, NoPeer)) \in GetAddresses(observed) <=> amCalls[n].confirmed

\* C14, amended: an observed address that is not one of the node's own
\* transport or announce addresses is among getAddresses() if and only if
\* confirmObservedAddr has been called for it and removeObservedAddr has not
\* been called for it since.
C14_IncludedIffConfirmedAndKept ==
  \A n \in ObservedAddrs \ (TransportAddrs \cup AnnounceAddrs) :
    WithPeerId(Ma(n, NoPeer)) \in GetAddresses(observed)
      <=> (amCalls[n].confirmed /\ ~amCalls[n].removedSince)

\* C14, witness: one address was confirmed and is advertised, another was
\* confirmed and removed again, and a third was added and never confirmed.
C14_Witness ==
  /\ amCalls[1].confirmed /\ ~amCalls[1].removedSince
  /\ Ma(1, Self) \in GetAddresses(observed)
  /\ amCalls[3].confirmed /\ amCalls[3].removedSince
  /\ Ma(3, NoPeer) \notin GetAddresses(observed)
  /\ observed[20] = "unconfident"

\* ------------------------------------------------------------------------
\* Properties of the auto-dialer
\* ------------------------------------------------------------------------

\* C16: at most one auto-dial pass runs at a time; an invocation made while
\* a pass is running does not start another pass.
C16_OnePassAtATime ==
  Cardinality({h \in AutoDials : adPass[h].pc \in {"all", "tags"}}) <= 1

\* C17: the auto-dialer never calls openConnection for a peer that is
\* connected or that has a pending dial at the time of the call.
C17_NeverDialsConnectedOrPending ==
  \A call \in adOpened : ~call.connected /\ ~call.dialing

\* C18: openConnection is only called while the number of connections is
\* below minConnections; every queued job checks the number again, and a job
\* that finds enough connections leaves the queue empty and opens nothing.
C18_DialsOnlyBelowMinConnections ==
  /\ \A call \in adOpened : ~call.enough
  /\ \A check \in adCleared : check.enough /\ check.queued = 0

\* C18, witness: one job has opened a connection, a later one has found
\* enough connections and cleared the queue.
C18_Witness ==
  /\ adOpened # {}
  /\ adCleared # {}
  /\ Cardinality(adConns) >= MinConnections

\* ------------------------------------------------------------------------
\* Properties of the node
\* ------------------------------------------------------------------------

\* C19: the node reports 'starting' while a start() is in progress,
\* 'stopping' while a stop() is in progress, and 'started' or 'stopped' only
\* when neither is.
C19_StatusFollowsLifecycle ==
  LET starting == \E h \in NodeOps : nodeOps[h].kind = "start"
      stopping == \E h \in NodeOps : nodeOps[h].kind = "stop"
  IN /\ (starting /\ ~stopping) => NodeStatus = "starting"
     /\ (stopping /\ ~starting) => NodeStatus = "stopping"
     /\ (~starting /\ ~stopping) => NodeStatus \in {"started", "stopped"}

\* ------------------------------------------------------------------------
\* Properties of the connection
\* ------------------------------------------------------------------------

\* C20: the status of a connection only moves forward, open, closing,
\* closed: once it has been closing it is never open again, and once it has
\* been closed it stays closed whatever close() or abort() is called later.
C20_StatusOnlyMovesForward ==
  /\ "closing" \in seenStatus => status # "open"
  /\ "closed" \in seenStatus => status = "closed"


\* C26, as claimed: whatever identify exchanges and address manager calls
\* were made, at most maxObservedAddresses observed addresses are held.
C26_AtMostMaxObserved == ObservedCount(observed) <= MaxObservedAddresses

\* C26, amended: the observed addresses held beyond maxObservedAddresses
\* were all put in by direct addObservedAddr or confirmObservedAddr calls;
\* identify exchanges alone never take the set over maxObservedAddresses.
C26_IdentifyKeepsLimit ==
  ObservedCount(observed)
    <= MaxObservedAddresses + Cardinality({n \in ObservedAddrs : amCalls[n].byCall})

\* C26, witness: identify has filled the set up to maxObservedAddresses and
\* has left out a further observed address.
C26_Witness ==
  /\ ObservedCount(observed) = MaxObservedAddresses
  /\ \A n \in ObservedAddrs : ~amCalls[n].byCall
  /\ capHit


\* a burst of address changes is open: the last change is less than a
\* second ago, or the update it asked for is still due
BurstOpen == sinceTrigger < DebounceTicks \/ updatePending

\* C27: address changes (a transport starts or stops to listen, an observed
\* address becomes confident) less than a second apart make one burst; every
\* burst that is over has made exactly one patch of our own peer store
\* entry, an open one none yet, and a confirmation of an address that is
\* confident already, with or without our peer id, makes none.
C27_OnePatchPerBurst == bursts = patches + (IF BurstOpen THEN 1 ELSE 0)

\* C27, witness: one address was confirmed, and confirmed again with and
\* without our peer id; the burst is over and one patch was made, which
\* holds the address.
C27_Witness ==
  /\ reconfirmed = {NoPeer, Self}
  /\ amCalls[1].confirmed /\ ~amCalls[3].confirmed /\ ~amCalls[20].confirmed
  /\ ~transportUp
  /\ bursts = 1 /\ patches = 1 /\ ~BurstOpen
  /\ Ma(1, NoPeer) \in selfMultiaddrs


\* ------------------------------------------------------------------------
\* Identify Push: handle and unhandle, push(), pushToConnections, the peer
\* ------------------------------------------------------------------------

\* the protocol id of Identify Push among the protocols of a peer
IdentifyPushProtocol == "/b"

\* the identify messages of a peer that does or does not support Identify Push
PushPeerMessages == {IdMsg(Remote, "none", 0, {}, ps) : ps \in IdProtocols}

FreePush(o) == pushOps[o].st = "idle" /\ \A g \in PushOps : g < o => pushOps[g].st # "idle"

\* IdentifyService.start: the handlers of identify are registered, started is set
IdentifyServiceStart ==
  /\ ~idStarted
  /\ idStarted' = TRUE
  /\ UNCHANGED <<handlers, pushOps, pushWire, remoteProtocols, remoteSaw>>
  /\ UNCHANGED notPush

\* the listener of self:peer:update calls push(): nothing is done unless the
\* service is started; the connections are taken and the Peer Store is
\* asked for the peer of each. peerReady notes whether identify had
\* completed by then with a connected peer that supports Identify Push
PushCall(kind, p) ==
  IF idStarted
    THEN \E o \in PushOps :
           /\ FreePush(o)
           /\ pushOps' = [g \in PushOps |->
                 IF g = o
                   THEN [IdlePush EXCEPT !.st = "collecting", !.kind = kind, !.proto = p,
                                         !.targets = idConns,
                                         !.peerReady = (idConns # {} /\ psPeer.known
                                            /\ IdentifyPushProtocol \in psPeer.protocols)]
                 ELSE IF pushOps[g].proto = p /\ pushOps[g].st \in {"collecting", "sealing"}
                   THEN [pushOps[g] EXCEPT !.undone = TRUE]
                 ELSE pushOps[g]]
    ELSE UNCHANGED pushOps

\* libp2p.handle(p): the registrar stores the handler and adds the protocol
\* to our Peer Store entry, which emits self:peer:update
Handle(p) ==
  /\ p \notin handlers
  /\ handlers' = handlers \cup {p}
  /\ PushCall("handle", p)
  /\ UNCHANGED <<idStarted, pushWire, remoteProtocols, remoteSaw>>
  /\ UNCHANGED notPush

\* libp2p.unhandle(p)
Unhandle(p) ==
  /\ p \in handlers
  /\ handlers' = handlers \ {p}
  /\ PushCall("unhandle", p)
  /\ UNCHANGED <<idStarted, pushWire, remoteProtocols, remoteSaw>>
  /\ UNCHANGED notPush

\* what peerStore.get, RecordEnvelope.seal return: a value or an error
StoreOutcomes == {"ok", "Error"}

\* push(): a connection is pushed to if its peer is in the Peer Store with
\* the Identify Push protocol; ERR_NOT_FOUND is passed over
PushTargets(conns, peer) ==
  IF peer.known /\ IdentifyPushProtocol \in peer.protocols THEN conns ELSE {}

\* push(): the peerStore.get calls return; any other error is thrown
PushCollected(o, out) ==
  /\ pushOps[o].st = "collecting"
  /\ pushOps' = [pushOps EXCEPT ![o] =
       IF out = "ok"
         THEN [@ EXCEPT !.st = "sealing", !.targets = PushTargets(@, psPeer)]
         ELSE [@ EXCEPT !.st = "rejected"]]
  /\ UNCHANGED <<idStarted, handlers, pushWire, remoteProtocols, remoteSaw>>
  /\ UNCHANGED notPush

\* a message without our protocols
PushProtocolsNone(hs) == {}

\* registrar.getProtocols()
PushProtocols(hs) == hs

\* pushToConnections: RecordEnvelope.seal returns and the protocols are read
PushSealed(o, out) ==
  /\ pushOps[o].st = "sealing"
  /\ pushOps' = [pushOps EXCEPT ![o] =
       IF out = "ok"
         THEN [@ EXCEPT !.st = "getting", !.protocols = PushProtocols(handlers)]
         ELSE [@ EXCEPT !.st = "rejected"]]
  /\ UNCHANGED <<idStarted, handlers, pushWire, remoteProtocols, remoteSaw>>
  /\ UNCHANGED notPush

\* a Promise.all(pushes) that rejects with the error of a connection
PushSettleRejecting(op) ==
  IF \E c \in op.targets : op.results[c] = "failed" THEN [op EXCEPT !.st = "rejected"]
  ELSE IF \A c \in op.targets : op.results[c] = "sent" THEN [op EXCEPT !.st = "resolved"]
  ELSE op

\* Promise.all(pushes) returns when every connection has been dealt with
PushSettle(op) ==
  IF \A c \in op.targets : op.results[c] \in {"sent", "failed"}
    THEN [op EXCEPT !.st = "resolved"] ELSE op

\* pushToConnections: peerStore.get(this.peerId) returns; a stream is asked
\* for on each connection
PushGotSelf(o, out) ==
  /\ pushOps[o].st = "getting"
  /\ pushOps' = [pushOps EXCEPT ![o] =
       IF out = "ok"
         THEN PushSettle([@ EXCEPT !.st = "sending",
                !.results = [c \in 1..MaxIdConns |-> IF c \in pushOps[o].targets THEN "pending" ELSE "none"]])
         ELSE [@ EXCEPT !.st = "rejected"]]
  /\ UNCHANGED <<idStarted, handlers, pushWire, remoteProtocols, remoteSaw>>
  /\ UNCHANGED notPush

\* connection.newStream returns the stream
PushStreamOpened(o, c) ==
  /\ pushOps[o].st = "sending"
  /\ pushOps[o].results[c] = "pending"
  /\ pushOps[o].streams[c] = "none"
  /\ pushOps' = [pushOps EXCEPT ![o].streams[c] = "open"]
  /\ UNCHANGED <<idStarted, handlers, pushWire, remoteProtocols, remoteSaw>>
  /\ UNCHANGED notPush

\* newStream or the write throws: the error is logged
PushStreamFails(o, c) ==
  /\ pushOps[o].st = "sending"
  /\ pushOps[o].results[c] = "pending"
  /\ pushOps' = [pushOps EXCEPT ![o] =
       PushSettle([@ EXCEPT !.results[c] = "failed", !.streams[c] = CloseStream(@)])]
  /\ UNCHANGED <<idStarted, handlers, pushWire, remoteProtocols, remoteSaw>>
  /\ UNCHANGED notPush

\* the message is written to the stream
PushSent(o, c) ==
  /\ pushOps[o].st = "sending"
  /\ pushOps[o].results[c] = "pending"
  /\ pushOps[o].streams[c] = "open"
  /\ pushOps' = [pushOps EXCEPT ![o] =
       PushSettle([@ EXCEPT !.results[c] = "sent", !.streams[c] = CloseStream(@)])]
  /\ pushWire' = pushWire \cup {[op |-> o, conn |-> c, protocols |-> pushOps[o].protocols]}
  /\ UNCHANGED <<idStarted, handlers, remoteProtocols, remoteSaw>>
  /\ UNCHANGED notPush

\* the peer's _handlePush: the protocols of the message replace those stored
RemoteHandlePush(msg) ==
  /\ msg \in pushWire
  /\ pushWire' = pushWire \ {msg}
  /\ remoteProtocols' = msg.protocols
  /\ remoteSaw' = remoteSaw \cup {<<msg.op, msg.protocols>>}
  /\ UNCHANGED <<idStarted, handlers, pushOps>>
  /\ UNCHANGED notPush

\* the steps of push() and of the peer, which are taken if nothing else is
PushProgress ==
  \/ \E o \in PushOps, out \in StoreOutcomes : PushCollected(o, out)
  \/ \E o \in PushOps, out \in StoreOutcomes : PushSealed(o, out)
  \/ \E o \in PushOps, out \in StoreOutcomes : PushGotSelf(o, out)
  \/ \E o \in PushOps, c \in IdConns : PushStreamOpened(o, c)
  \/ \E o \in PushOps, c \in IdConns : PushStreamFails(o, c)
  \/ \E o \in PushOps, c \in IdConns : PushSent(o, c)
  \/ \E msg \in pushWire : RemoteHandlePush(msg)

InitPush == InitDialVars /\ InitCMVars /\ InitIdVars /\ InitAMVars /\ InitADVars /\ InitNodeVars /\ InitConnVars /\ InitPushVars /\ InitKAVars /\ InitMSVars

NextPush ==
  \/ \E c \in IdConns, h \in IdOps : Upgrade(c, h)
  \/ \E h \in IdOps : IdentifyStreamOpened(h)
  \/ \E h \in IdOps : IdentifyReadFails(h, "ERR_CONNECTION_ENDED")
  \/ \E h \in IdOps, m \in PushPeerMessages : IdentifyRead(h, m, NoObservedAddr)
  \/ \E h \in IdOps : Patch(h)
  \/ IdentifyServiceStart
  \/ \E p \in AppProtocols : Handle(p)
  \/ \E p \in AppProtocols : Unhandle(p)
  \/ PushProgress

SpecPush == InitPush /\ [][NextPush]_vars

\* the same with one connection to the peer
NextPushOne ==
  \/ \E h \in IdOps : Upgrade(1, h)
  \/ \E h \in IdOps : IdentifyStreamOpened(h)
  \/ \E h \in IdOps : IdentifyReadFails(h, "ERR_CONNECTION_ENDED")
  \/ \E h \in IdOps, m \in PushPeerMessages : IdentifyRead(h, m, NoObservedAddr)
  \/ \E h \in IdOps : Patch(h)
  \/ IdentifyServiceStart
  \/ \E p \in AppProtocols : Handle(p)
  \/ \E p \in AppProtocols : Unhandle(p)
  \/ PushProgress

SpecPushFair == InitPush /\ [][NextPushOne]_vars /\ WF_vars(PushProgress)

PushTypeOK == \A o \in PushOps : pushOps[o].st \in
  {"idle", "collecting", "sealing", "getting", "sending", "resolved", "rejected"}


\* ------------------------------------------------------------------------
\* Properties of Identify Push
\* ------------------------------------------------------------------------

\* the peer has handled a message of push o that shows the change of o
PushShown(o) ==
  \E r \in remoteSaw :
    /\ r[1] = o
    /\ \/ pushOps[o].kind = "handle" /\ pushOps[o].proto \in r[2]
       \/ pushOps[o].kind = "unhandle" /\ pushOps[o].proto \notin r[2]

\* push o has ended without a message that reached the peer's handler: the
\* Peer Store or the sealing failed, the peer was not known to take pushes
\* when push() asked, or every stream failed
PushLost(o) ==
  \/ pushOps[o].st = "rejected"
  \/ /\ pushOps[o].st = "resolved"
     /\ \A c \in pushOps[o].targets : pushOps[o].results[c] = "failed"

C22_PushNeverRejects == \A o \in PushOps : pushOps[o].st # "rejected"

\* C22, amended: an error of newStream or of the write on one connection is
\* logged: push() does not reject for it and goes on with the other
\* connections; push() rejects only before any stream is asked for, when
\* the Peer Store or the sealing of the record fails.
C22_StreamErrorsAreLogged ==
  \A o \in PushOps :
    /\ pushOps[o].st = "rejected" => \A c \in IdConns : pushOps[o].results[c] = "none"
    /\ pushOps[o].st = "resolved" =>
         \A c \in pushOps[o].targets : pushOps[o].results[c] \in {"sent", "failed"}

\* C22, witness: a push failed on the first connection and was written on
\* the second, and the peer has handled that message.
C22_Witness ==
  \E o \in PushOps :
    /\ pushOps[o].st = "resolved"
    /\ pushOps[o].results[1] = "failed" /\ pushOps[o].results[2] = "sent"
    /\ \E r \in remoteSaw : r[1] = o

\* C25: a stream the identify service has opened, for an identify request
\* or for a push, is closed when the call that opened it has ended, with a
\* message or with an error.
C25_OpenedStreamsClosed ==
  /\ \A h \in IdOps : idOps[h].st # "reading" => idOps[h].stream # "open"
  /\ \A o \in PushOps, c \in IdConns :
       pushOps[o].results[c] \in {"sent", "failed"} => pushOps[o].streams[c] # "open"

\* C25, witness: an identify request has failed and another has read its
\* message, a push was written on one connection and has failed on the
\* other after the stream was opened; all four streams are closed.
C25_Witness ==
  /\ \E h \in IdOps : idOps[h].st = "failed" /\ idOps[h].stream = "closed"
  /\ \E h \in IdOps : idOps[h].st = "done" /\ idOps[h].stream = "closed"
  /\ \E o \in PushOps :
       /\ pushOps[o].results[1] = "sent" /\ pushOps[o].streams[1] = "closed"
       /\ pushOps[o].results[2] = "failed" /\ pushOps[o].streams[2] = "closed"


\* ------------------------------------------------------------------------
\* Connection manager: the reconnect to KEEP_ALIVE peers on start
\* ------------------------------------------------------------------------

\* libp2p.start(): the connection manager begins a reconnect pass
ConnectionManagerStart ==
  /\ ~cmStarted
  /\ cmStarts < MaxStarts
  /\ cmStarted' = TRUE
  /\ cmStarts' = cmStarts + 1
  /\ reconnect' = [reconnect EXCEPT ![cmStarts + 1].pc = "started"]
  /\ UNCHANGED cmVars
  /\ UNCHANGED notKA

\* libp2p.stop()
ConnectionManagerStop ==
  /\ cmStarted
  /\ cmStarted' = FALSE
  /\ UNCHANGED <<cmStarts, reconnect>>
  /\ UNCHANGED cmVars
  /\ UNCHANGED notKA

\* a pass that finds no peer
KeepAlivePeersNone(tagged) == {}

\* the peers of the Peer Store that have the KEEP_ALIVE tag
KeepAlivePeers(tagged) == tagged

\* the pass of start k has read the Peer Store
ReconnectEnumerate(k) ==
  /\ reconnect[k].pc = "started"
  /\ reconnect' = [reconnect EXCEPT ![k].pc = "enumerated", ![k].todo = KeepAlivePeers(keepAlive)]
  /\ UNCHANGED <<cmStarted, cmStarts>>
  /\ UNCHANGED cmVars
  /\ UNCHANGED notKA

\* the pass of start k calls openConnection(p)
ReconnectOpenConnection(k, p) ==
  /\ reconnect[k].pc = "enumerated"
  /\ p \in reconnect[k].todo
  /\ reconnect' = [reconnect EXCEPT ![k].todo = @ \ {p}, ![k].opened = @ \cup {p}]
  /\ UNCHANGED <<cmStarted, cmStarts>>
  /\ UNCHANGED cmVars
  /\ UNCHANGED notKA

\* the steps of a reconnect pass
ReconnectProgress ==
  \/ \E k \in 1..MaxStarts : ReconnectEnumerate(k)
  \/ \E k \in 1..MaxStarts, p \in CMPeers : ReconnectOpenConnection(k, p)

InitKeepAlive == InitDialVars /\ InitCMVars /\ InitIdVars /\ InitAMVars /\ InitADVars /\ InitNodeVars /\ InitConnVars /\ InitPushVars /\ InitKAVars /\ InitMSVars

NextKeepAlive ==
  \/ ConnectionManagerStart
  \/ ConnectionManagerStop
  \/ \E p \in CMPeers : TagKeepAlive(p)
  \/ ReconnectProgress

SpecKeepAlive == InitKeepAlive /\ [][NextKeepAlive]_vars

SpecKeepAliveFair == SpecKeepAlive /\ WF_vars(ReconnectProgress)

\* C29: after every start of the node, the first or one that follows a
\* stop, openConnection is eventually called for each peer that has the
\* KEEP_ALIVE tag.
C29_KeepAliveReconnected ==
  \A k \in 1..MaxStarts, p \in CMPeers :
    (reconnect[k].pc = "started" /\ p \in keepAlive) ~> p \in reconnect[k].opened

\* C29, witness: a peer was tagged after the first start, whose pass found
\* nobody; the node was stopped and started again, and openConnection was
\* called for the peer.
C29_Witness ==
  /\ cmStarts = 2 /\ cmStarted
  /\ reconnect[1].pc = "enumerated" /\ reconnect[1].opened = {}
  /\ keepAlive = {"p1"}
  /\ reconnect[2].opened = {"p1"}


\* ------------------------------------------------------------------------
\* Protocol select: select on the dialer's side, handle on the listener's
\* ------------------------------------------------------------------------
SelectProtocols == {"/echo/1.0.0", "/echo/2.0.0", "/echo/3.0.0"}
Header == "/multistream/1.0.0"   \* the version line
Na == "na"

\* the candidate lists of the dialer
CandidateLists == UNION {[1..n -> SelectProtocols] : n \in 1..MaxCandidates}

\* select(stream, candidates) and handle(stream, supported) are called on
\* the two ends of a stream
InitSelect ==
  /\ InitDialVars /\ InitCMVars /\ InitIdVars /\ InitAMVars /\ InitADVars
  /\ InitNodeVars /\ InitConnVars /\ InitPushVars /\ InitKAVars
  /\ dialer \in {[list |-> l, next |-> 0, st |-> "start", protocol |-> "none"] : l \in CandidateLists}
  /\ listener \in {[supported |-> s, st |-> "start", protocol |-> "none"] : s \in SUBSET SelectProtocols}
  /\ toListener = <<>>
  /\ toDialer = <<>>

\* select: the version line and the first candidate are written
SelectStart ==
  /\ dialer.st = "start"
  /\ dialer' = [dialer EXCEPT !.st = "header", !.next = 1]
  /\ toListener' = toListener \o <<Header, dialer.list[1]>>
  /\ UNCHANGED <<listener, toDialer>>
  /\ UNCHANGED notMS

\* select reads a line: the version line, the candidate it proposed, which
\* is then chosen, or na, after which the next candidate is proposed; it
\* fails as unsupported when none is left
SelectRead ==
  /\ dialer.st \in {"header", "proposed"}
  /\ toDialer # <<>>
  /\ toDialer' = Tail(toDialer)
  /\ \E line \in {Head(toDialer)} :
       IF dialer.st = "header"
         THEN /\ dialer' = [dialer EXCEPT !.st = IF line = Header THEN "proposed" ELSE "failed"]
              /\ UNCHANGED toListener
       ELSE IF line = dialer.list[dialer.next]
         THEN /\ dialer' = [dialer EXCEPT !.st = "selected", !.protocol = line]
              /\ UNCHANGED toListener
       ELSE IF line = Na /\ dialer.next < Len(dialer.list)
         THEN /\ dialer' = [dialer EXCEPT !.next = @ + 1]
              /\ toListener' = Append(toListener, dialer.list[dialer.next + 1])
       ELSE /\ dialer' = [dialer EXCEPT !.st = "failed"]
            /\ UNCHANGED toListener
  /\ UNCHANGED listener
  /\ UNCHANGED notMS

\* a listener that takes whatever is proposed
HandleReplyAny(supported, line) == line

\* handle: the reply to a proposal is the protocol if it is supported, else na
HandleReply(supported, line) == IF line \in supported THEN line ELSE Na

\* handle reads a line: the version line is answered with the version line,
\* a proposal with the protocol, which is then chosen, or with na
HandleRead ==
  /\ listener.st \in {"start", "ready"}
  /\ toListener # <<>>
  /\ toListener' = Tail(toListener)
  /\ \E line \in {Head(toListener)} :
       IF listener.st = "start"
         THEN /\ listener' = [listener EXCEPT !.st = IF line = Header THEN "ready" ELSE "failed"]
              /\ toDialer' = IF line = Header THEN Append(toDialer, Header) ELSE toDialer
       ELSE /\ toDialer' = Append(toDialer, HandleReply(listener.supported, line))
            /\ listener' = IF HandleReply(listener.supported, line) = Na
                              THEN listener
                              ELSE [listener EXCEPT !.st = "selected",
                                                    !.protocol = HandleReply(listener.supported, line)]
  /\ UNCHANGED dialer
  /\ UNCHANGED notMS

NextSelect ==
  \/ SelectStart
  \/ SelectRead
  \/ HandleRead

SpecSelect == InitSelect /\ [][NextSelect]_vars

SpecSelectFair == SpecSelect /\ WF_vars(NextSelect)

\* the candidates the listener supports, by their place in the dialer's list
CommonPlaces == {i \in 1..Len(dialer.list) : dialer.list[i] \in listener.supported}

\* the first candidate of the dialer's list that the listener supports
FirstCommon ==
  dialer.list[CHOOSE i \in CommonPlaces : \A j \in CommonPlaces : i <= j]

\* both ends have chosen, and the same protocol
SelectAgreed ==
  /\ dialer.st = "selected" /\ listener.st = "selected"
  /\ dialer.protocol = listener.protocol

\* C30: if the dialer's list and the listener's set share a protocol, select
\* and handle both end, and both with the first protocol of the dialer's
\* list that the listener supports.
C30_SelectRoundTrip ==
  /\ (CommonPlaces # {}) ~> SelectAgreed
  /\ [](CommonPlaces # {} =>
         /\ dialer.st = "selected" => dialer.protocol = FirstCommon
         /\ listener.st = "selected" => listener.protocol = FirstCommon
         /\ dialer.st # "failed" /\ listener.st # "failed")

\* C30, witness: the listener supports the third candidate only, which both
\* ends have chosen after two candidates were answered with na.
C30_Witness ==
  /\ dialer.list = <<"/echo/3.0.0", "/echo/2.0.0", "/echo/1.0.0">>
  /\ listener.supported = {"/echo/1.0.0"}
  /\ SelectAgreed
  /\ dialer.protocol = "/echo/1.0.0"
  /\ dialer.next = 3

\* ------------------------------------------------------------------------
\* Properties of the dial queue: errors of dial()
\* ------------------------------------------------------------------------

\* C31: a dial whose target peer id is the node's own peer id has rejected
\* with ERR_DIALED_SELF as soon as dial() has run to its first await; no
\* transport dial was started for it and no Pending Dial exists for it.
C31_DialedSelfRejected ==
  \A i \in Invs : inv[i].st # "idle" /\ inv[i].target.peer = Self =>
    /\ inv[i].st = "rejected"
    /\ inv[i].result = CalcError("ERR_DIALED_SELF", i)
    /\ inv[i].dial = 0
    /\ ~dialInfo[i].created
    /\ jobs[i] = <<>>
    /\ ~InPending(i)

\* C31, witness: a dial of the node's own peer id has rejected while the
\* Pending Dial of another invocation has an address at a transport.
C31_Witness ==
  /\ \E i \in Invs : inv[i].target.peer = Self /\ inv[i].st = "rejected"
  /\ \E d \in Invs : InPending(d) /\ \E a \in DOMAIN jobs[d] : jobs[d][a].st = "dialing"

\* C34: no Pending Dial is created with an empty list of multiaddrs: a dial
\* whose list is empty after the transport filter, the de-duplication and the
\* denyDialMultiaddr gater never reaches the race.
C34_NoRaceWithoutAddresses ==
  \A d \in Invs : dialInfo[d].created => Len(dialInfo[d].multiaddrs) > 0

\* C32: when every address of a Pending Dial has failed, the invocations
\* waiting for it reject with ERR_TIMEOUT if the timeout of the invocation
\* that created it has fired; otherwise with the error of the only address if
\* the Pending Dial has exactly one multiaddr, and with an AggregateError if
\* it has more than one.
C32_AllFailedError ==
  \A i \in Invs : inv[i].st = "rejected" /\ inv[i].dial # 0 =>
    /\ AllFailed(jobs, inv[i].dial)
    /\ Len(dialInfo[inv[i].dial].multiaddrs) >= 1 =>
         inv[i].result.code =
           IF inv[inv[i].dial].timedOut THEN "ERR_TIMEOUT"
           ELSE IF Len(dialInfo[inv[i].dial].multiaddrs) = 1 THEN jobs[inv[i].dial][1].err
           ELSE "AggregateError"

\* C32, witness: one invocation was rejected with the transport's error of
\* the only address of its Pending Dial, another with the AggregateError of a
\* Pending Dial of several addresses.
C32_Witness ==
  /\ \E i \in Invs : /\ inv[i].st = "rejected" /\ inv[i].dial = i
                      /\ Len(dialInfo[i].multiaddrs) = 1
                      /\ inv[i].result.code = "ERR_TRANSPORT_DIAL_FAILED"
  /\ \E i \in Invs : /\ inv[i].st = "rejected" /\ inv[i].dial = i
                      /\ Len(dialInfo[i].multiaddrs) > 1
                      /\ inv[i].result.code = "AggregateError"

\* C32, as stated: when every address of a Pending Dial has failed, the dial
\* rejects with the error of the only address if exactly one address was
\* tried, and with an AggregateError if more than one was.
C32_OneErrorOrAggregate ==
  \A i \in Invs : inv[i].st = "rejected" /\ inv[i].dial # 0
                     /\ Len(dialInfo[inv[i].dial].multiaddrs) >= 1 =>
    inv[i].result.code =
      IF Len(dialInfo[inv[i].dial].multiaddrs) = 1 THEN jobs[inv[i].dial][1].err
      ELSE "AggregateError"

\* C33: a dial that is started after cancelPendingDials() was called (the
\* node was stopped and started again) is not aborted by that shutdown: unless
\* its own timeout or the caller's signal has fired, none of its addresses
\* fails with an abort error.
C33_LaterDialNotAborted ==
  \A i \in Invs :
    inv[i].afterShutdown /\ ~inv[i].timedOut /\ ~inv[i].userAborted =>
      \A a \in DOMAIN jobs[i] : jobs[i][a].err # "ABORT_ERR"

\* C40: every Pending Dial in pendingDials eventually leaves it, and
\* whenever no invocation of dial() is in progress pendingDials is empty.
C40_PendingDialsSettle ==
  /\ \A d \in Invs : InPending(d) ~> ~InPending(d)
  /\ []((\A i \in Invs : ~Unsettled(i)) => pendingDials = <<>>)

\* C40, witness: two Pending Dials were created, one connected and one had
\* all its addresses fail, every invocation has settled and pendingDials is
\* empty.
C40_Witness ==
  /\ pendingDials = <<>>
  /\ \A i \in Invs : inv[i].st \in {"resolved", "rejected"}
  /\ \E d \in Invs : dialInfo[d].created /\ dialInfo[d].status = "success"
  /\ \E d \in Invs : /\ dialInfo[d].created /\ dialInfo[d].status = "error"
                      /\ Len(dialInfo[d].multiaddrs) >= 1

\* ------------------------------------------------------------------------
\* Properties of Identify Push: the order of pushes
\* ------------------------------------------------------------------------

\* every push() that was called found the peer ready for Identify Push, has
\* written its message on every connection and has returned
AllPushesSent ==
  /\ \E o \in PushOps : pushOps[o].st # "idle"
  /\ \A o \in PushOps : pushOps[o].st # "idle" =>
        /\ pushOps[o].st = "resolved"
        /\ pushOps[o].peerReady
        /\ pushOps[o].targets # {}
        /\ \A c \in pushOps[o].targets : pushOps[o].results[c] = "sent"

\* C39: after any sequence of handle() and unhandle() calls, once every
\* resulting Identify Push message has been written and the peer has handled
\* every one of them, the protocol list the peer holds for the node equals
\* the node's current protocol list.
C39_PeerHoldsCurrentProtocols ==
  AllPushesSent /\ pushWire = {} => remoteProtocols = PushProtocols(handlers)

\* ------------------------------------------------------------------------
\* Properties of the node: stop and failed start
\* ------------------------------------------------------------------------

\* C35: after a stop() call has run through and resolved, and as long as no
\* start() is called after it, the services are stopped and isStarted() is
\* false, also when that stop() was called while a start() was in progress.
C35_StoppedAfterStop ==
  nodeHist.stopDone => (~IsStarted /\ ~running)

\* C36: when a start() call has rejected and no other start() or stop() call
\* is in progress, isStarted() is false and the services that had been
\* started are stopped.
C36_StoppedAfterFailedStart ==
  (nodeHist.startRejected /\ \A h \in NodeOps : nodeOps[h].pc = "idle")
    => (~IsStarted /\ ~running)

\* ------------------------------------------------------------------------
\* Properties of the connection: streams and closing
\* ------------------------------------------------------------------------

\* C37: a connection whose status is closing or closed gains no stream, and
\* once a connection is closed and no close() is in progress none of its
\* streams is open.
C37_NoStreamGainedWhileClosing ==
  /\ gained \subseteq {"open"}
  /\ (status = "closed" /\ \A h \in ConnOps : connOps[h].kind # "close")
       => \A i \in StreamIds : streams[i] # "open"

\* ------------------------------------------------------------------------
\* Properties of the auto-dialer: stop
\* ------------------------------------------------------------------------

\* C38: once AutoDial.stop() has returned the auto-dialer calls
\* openConnection no more, also when an autoDial() pass was in progress at
\* the time of the stop.
C38_NoDialAfterStop ==
  \A call \in adOpened : ~call.stopped

====
